---- MODULE Spec2Model ----
(***************************************************************************)
(* cmdbox: the placeholder engine (runner.ExtractParams,                   *)
(* runner.SubstituteParams), the process streamer (runner.Run) and the     *)
(* interaction state machine (ui.App).                                     *)
(*                                                                         *)
(* Strings are sequences of one-character strings, so that the regular     *)
(* expression, strings.ReplaceAll, strings.Fields and strings.Index are    *)
(* computed character by character as the Go code computes them.           *)
(***************************************************************************)
EXTENDS Integers, Sequences, FiniteSets, Bags, TLC

(***************************************************************************)
(* Bounds of the model.                                                    *)
(***************************************************************************)
\* number of pieces a template of the placeholder-engine specification is built from
MaxPieces == 3

\* Spec: the commands the user starts, the lines a child writes to one of its
\* streams, and the key events, in one behaviour
MaxRuns == 1

MaxLines == 1

MaxKeys == 5

\* SpecStream: the same three bounds
StreamRuns == 2

StreamLines == 2

StreamKeys == 2

\* number of store calls that fail in one behaviour
MaxFails == 1

\* SpecScan: the commands started, the lines a child writes and the key events
ScanRuns == 1

ScanLines == 2

ScanKeys == 2

\* SpecModes: the commands started, the lines a child writes and the key events
ModeRuns == 1

ModeLines == 1

ModeKeys == 4

\* SpecSeed: a run with parameters, and the prompt for the same command after it
SeedRuns == 2

SeedKeys == 9

\* the largest number of entries of a mapping given to SubstituteParams
MaxSupplied == 2

\* SpecForms: the commands started, the key events and the failing store calls
FormRuns == 1

FormKeys == 6

FormFails == 1

(***************************************************************************)
(* Characters.                                                             *)
(***************************************************************************)
\* the characters of the model's alphabet that the regexp class \w accepts
WordChars == {"a", "b", "e", "h", "l", "p", "s", "u", "x"}

\* whitespace as strings.Fields sees it
SpaceChars == {" "}

LBrace == "{"

RBrace == "}"

Bang == "!"

\* concatenation of a sequence of strings
RECURSIVE Concat(_)
Concat(ss) == IF ss = <<>> THEN <<>> ELSE Head(ss) \o Concat(Tail(ss))

\* "{{" + name + "}}"
Plain(name) == <<LBrace, LBrace>> \o name \o <<RBrace, RBrace>>

\* "{{!" + name + "}}"
Secret(name) == <<LBrace, LBrace, Bang>> \o name \o <<RBrace, RBrace>>

(***************************************************************************)
(* The placeholder engine.                                                 *)
(***************************************************************************)
\* \w+ is greedy: the first position at or after j that holds no word character
RECURSIVE WordEnd(_, _)
WordEnd(s, j) ==
    IF j > Len(s) \/ s[j] \notin WordChars THEN j ELSE WordEnd(s, j + 1)

\* paramRegex \{\{(!)?(\w+)\}\} anchored at position i of s
MatchAt(s, i) ==
    LET n == Len(s)
        open == i + 1 <= n /\ s[i] = LBrace /\ s[i + 1] = LBrace
        bang == i + 2 <= n /\ s[i + 2] = Bang
        j == IF bang THEN i + 3 ELSE i + 2
        k == WordEnd(s, j)
    IN  IF open /\ k > j /\ k + 1 <= n /\ s[k] = RBrace /\ s[k + 1] = RBrace
        THEN [ok |-> TRUE, sens |-> bang, name |-> SubSeq(s, j, k - 1),
              from |-> i, to |-> k + 1]
        ELSE [ok |-> FALSE, sens |-> FALSE, name |-> <<>>, from |-> i, to |-> i]

\* the leftmost non-overlapping matches from position i on
RECURSIVE FindAllFrom(_, _)
FindAllFrom(s, i) ==
    IF i > Len(s) THEN <<>>
    ELSE LET m == MatchAt(s, i)
         IN  IF m.ok THEN <<m>> \o FindAllFrom(s, m.to + 1)
             ELSE FindAllFrom(s, i + 1)

\* paramRegex.FindAllStringSubmatch(cmd, -1)
FindAllStringSubmatch(cmd) == FindAllFrom(cmd, 1)

\* the loop of ExtractParams without the seen map: one entry per match
RECURSIVE ExtractLoop_NoSeen(_, _, _, _)
ExtractLoop_NoSeen(matches, k, seen, params) ==
    IF k > Len(matches) THEN params
    ELSE ExtractLoop_NoSeen(matches, k + 1, seen,
             Append(params, [Name |-> matches[k].name, Sensitive |-> matches[k].sens]))

\* the loop of ExtractParams: a name is appended when it is first seen, with
\* the sensitivity of that occurrence
RECURSIVE ExtractLoop(_, _, _, _)
ExtractLoop(matches, k, seen, params) ==
    IF k > Len(matches) THEN params
    ELSE LET m == matches[k]
         IN  IF m.name \notin seen
             THEN ExtractLoop(matches, k + 1, seen \cup {m.name},
                      Append(params, [Name |-> m.name, Sensitive |-> m.sens]))
             ELSE ExtractLoop(matches, k + 1, seen, params)

ExtractParams(cmd) == ExtractLoop(FindAllStringSubmatch(cmd), 1, {}, <<>>)

\* whether old occurs in s at position i
HasPrefixAt(s, old, i) ==
    i + Len(old) - 1 <= Len(s) /\ SubSeq(s, i, i + Len(old) - 1) = old

\* strings.ReplaceAll for a non-empty old: non-overlapping, left to right
RECURSIVE ReplaceFrom(_, _, _, _)
ReplaceFrom(s, old, new, i) ==
    IF i > Len(s) THEN <<>>
    ELSE IF HasPrefixAt(s, old, i)
         THEN new \o ReplaceFrom(s, old, new, i + Len(old))
         ELSE <<s[i]>> \o ReplaceFrom(s, old, new, i + 1)

ReplaceAll(s, old, new) == ReplaceFrom(s, old, new, 1)

\* one iteration of an older SubstituteParams: only the {{name}} form
SubstOne_PlainOnly(result, name, value) == ReplaceAll(result, Plain(name), value)

\* one iteration of the loop of SubstituteParams
SubstOne(result, name, value) ==
    ReplaceAll(ReplaceAll(result, Plain(name), value), Secret(name), value)

\* the loop of SubstituteParams over the map's entries in the order `order`
RECURSIVE SubstFold(_, _, _, _)
SubstFold(result, values, order, k) ==
    IF k > Len(order) THEN result
    ELSE SubstFold(SubstOne(result, order[k], values[order[k]]), values, order, k + 1)

\* the orders in which Go may range over a map with the keys ks
MapOrders(ks) ==
    {o \in [1..Cardinality(ks) -> ks] : \A i, j \in DOMAIN o : i # j => o[i] # o[j]}

\* SubstituteParams, given the iteration order of the map
SubstituteParams(cmd, values, order) == SubstFold(cmd, values, order, 1)

(***************************************************************************)
(* Helpers of the state machine: parsing of the inline parameter line, the *)
(* JSON column, the fuzzy filter and the store's queries.                  *)
(***************************************************************************)
Eq == "="

\* strings.Fields: the maximal runs of non-space characters, left to right
RECURSIVE FieldsFrom(_, _, _, _)
FieldsFrom(s, i, cur, acc) ==
    IF i > Len(s) THEN (IF cur = <<>> THEN acc ELSE Append(acc, cur))
    ELSE IF s[i] \in SpaceChars
         THEN FieldsFrom(s, i + 1, <<>>, IF cur = <<>> THEN acc ELSE Append(acc, cur))
         ELSE FieldsFrom(s, i + 1, Append(cur, s[i]), acc)

Fields(s) == FieldsFrom(s, 1, <<>>, <<>>)

\* strings.Index(part, "="): the 0-based index of the first "=", or -1
RECURSIVE IndexFrom(_, _, _)
IndexFrom(part, ch, i) ==
    IF i > Len(part) THEN -1
    ELSE IF part[i] = ch THEN i - 1 ELSE IndexFrom(part, ch, i + 1)

Index(part, ch) == IndexFrom(part, ch, 1)

\* result[key] = value
MapPut(m, key, value) ==
    [k \in DOMAIN m \cup {key} |-> IF k = key THEN value ELSE m[k]]

\* the loop of parseInlineParams accepting a part whose "=" is its first character
RECURSIVE ParseLoop_IdxGeq0(_, _, _)
ParseLoop_IdxGeq0(parts, k, result) ==
    IF k > Len(parts) THEN result
    ELSE LET part == parts[k]
             idx == Index(part, Eq)
         IN  IF idx >= 0
             THEN ParseLoop_IdxGeq0(parts, k + 1,
                      MapPut(result, SubSeq(part, 1, idx), SubSeq(part, idx + 2, Len(part))))
             ELSE ParseLoop_IdxGeq0(parts, k + 1, result)

\* the loop of parseInlineParams: key = part[:idx], value = part[idx+1:] when idx > 0
RECURSIVE ParseLoop(_, _, _)
ParseLoop(parts, k, result) ==
    IF k > Len(parts) THEN result
    ELSE LET part == parts[k]
             idx == Index(part, Eq)
         IN  IF idx > 0
             THEN ParseLoop(parts, k + 1,
                      MapPut(result, SubSeq(part, 1, idx), SubSeq(part, idx + 2, Len(part))))
             ELSE ParseLoop(parts, k + 1, result)

parseInlineParams(input) == ParseLoop(Fields(input), 1, <<>>)

\* the validation of updateParam that looks at the first placeholder only
MissingParams_FirstOnly(infos, parsed) ==
    IF infos # <<>> /\ infos[1].Name \notin DOMAIN parsed THEN <<infos[1].Name>> ELSE <<>>

\* the validation loop of updateParam: the required names absent from parsed
MissingParams(infos, parsed) ==
    SelectSeq([i \in DOMAIN infos |-> infos[i].Name], LAMBDA n : n \notin DOMAIN parsed)

\* strings.Join(parts, " ")
RECURSIVE Join(_, _)
Join(parts, sep) ==
    IF parts = <<>> THEN <<>>
    ELSE IF Len(parts) = 1 THEN parts[1]
         ELSE parts[1] \o sep \o Join(Tail(parts), sep)

\* the last_params column: '' (the column's default) or the JSON object written
\* by json.Marshal, kept as its set of "key":"value" members
NoJSON == [set |-> FALSE, members |-> {}]

jsonMarshal(m) == [set |-> TRUE, members |-> {<<k, m[k]>> : k \in DOMAIN m}]

\* json.Unmarshal into a map; '' is not unmarshalled and leaves the map empty
jsonUnmarshal(j) ==
    [k \in {mem[1] : mem \in j.members} |->
        (CHOOSE mem \in j.members : mem[1] = k)[2]]

\* lastParams[p.Name]: the zero value "" for an absent key
MapGet(m, key) == IF key \in DOMAIN m THEN m[key] ELSE <<>>

\* the loop of runSelectedCommand that pre-seeds the saved value of a sensitive
\* placeholder as well
RECURSIVE SeedParts_All(_, _, _)
SeedParts_All(params, lastParams, k) ==
    IF k > Len(params) THEN <<>>
    ELSE <<params[k].Name \o <<Eq>> \o MapGet(lastParams, params[k].Name)>>
             \o SeedParts_All(params, lastParams, k + 1)

\* the loop of runSelectedCommand that builds "key=value" for each placeholder
RECURSIVE SeedParts(_, _, _)
SeedParts(params, lastParams, k) ==
    IF k > Len(params) THEN <<>>
    ELSE LET p == params[k]
             val == IF ~p.Sensitive THEN MapGet(lastParams, p.Name) ELSE <<>>
         IN  <<p.Name \o <<Eq>> \o val>> \o SeedParts(params, lastParams, k + 1)

\* the toSave loop of executeCommand that keeps sensitive values too
ToSave_All(infos, values) ==
    [n \in {infos[i].Name : i \in DOMAIN infos} \cap DOMAIN values |-> values[n]]

\* the toSave loop of executeCommand: the supplied values of the placeholders
\* that are not flagged sensitive
ToSave(infos, values) ==
    [n \in {infos[i].Name : i \in {j \in DOMAIN infos : ~infos[j].Sensitive}}
              \cap DOMAIN values |-> values[n]]

\* whether the characters of pattern occur in target in this order (the
\* membership test of fuzzy.Find)
RECURSIVE FuzzyMatch(_, _, _, _)
FuzzyMatch(pattern, target, i, j) ==
    IF i > Len(pattern) THEN TRUE
    ELSE IF j > Len(target) THEN FALSE
         ELSE IF pattern[i] = target[j] THEN FuzzyMatch(pattern, target, i + 1, j + 1)
              ELSE FuzzyMatch(pattern, target, i, j + 1)

\* the results fuzzy.Find may return: the indices of the matching targets, in
\* the order of the library's score (any order of them here)
FuzzyFind(query, targets) ==
    LET hits == {i \in DOMAIN targets : FuzzyMatch(query, targets[i], 1, 1)}
    IN  MapOrders(hits)

\* ORDER BY last_used_at DESC NULLS LAST, created_at DESC (0 is NULL)
ListBefore(x, y) ==
    \/ x.LastUsedAt > y.LastUsedAt
    \/ x.LastUsedAt = y.LastUsedAt /\ x.CreatedAt > y.CreatedAt

\* the rows of a table in the order of DB.List / DB.ListQueries
ListRows(table) ==
    LET ids == DOMAIN table
        order == CHOOSE o \in MapOrders(ids) :
                    \A i, j \in DOMAIN o : i < j => ListBefore(table[o[i]], table[o[j]])
    IN  [i \in DOMAIN order |-> table[order[i]]]

\* UPDATE ... SET last_used_at = ? WHERE id = ?
SetLastUsed(table, id, t) ==
    [i \in DOMAIN table |-> IF i = id THEN [table[i] EXCEPT !.LastUsedAt = t] ELSE table[i]]

\* UPDATE commands SET last_params = ? WHERE id = ?
SetLastParams(table, id, params) ==
    [i \in DOMAIN table |->
        IF i = id THEN [table[i] EXCEPT !.LastParams = jsonMarshal(params)] ELSE table[i]]

\* the line feed a textarea inserts on "enter"
NL == "\n"

\* strings.TrimSpace: without the leading and trailing white space
RECURSIVE TrimSpace(_)
TrimSpace(s) ==
    IF s = <<>> THEN s
    ELSE IF Head(s) \in SpaceChars \cup {NL} THEN TrimSpace(Tail(s))
    ELSE IF s[Len(s)] \in SpaceChars \cup {NL} THEN TrimSpace(SubSeq(s, 1, Len(s) - 1))
    ELSE s

\* TRIM(x) of SQLite: without the leading and trailing spaces
RECURSIVE SqlTrim(_)
SqlTrim(s) ==
    IF s = <<>> THEN s
    ELSE IF Head(s) \in SpaceChars THEN SqlTrim(Tail(s))
    ELSE IF s[Len(s)] \in SpaceChars THEN SqlTrim(SubSeq(s, 1, Len(s) - 1))
    ELSE s

\* IsDuplicateCmd that excludes no row
IsDuplicateCmd_NoExclude(table, cmd, excludeID) ==
    \E id \in DOMAIN table : SqlTrim(table[id].Cmd) = TrimSpace(cmd)

\* SELECT COUNT(*) FROM commands WHERE TRIM(cmd) = ? AND id != ?
IsDuplicateCmd(table, cmd, excludeID) ==
    \E id \in DOMAIN table : SqlTrim(table[id].Cmd) = TrimSpace(cmd) /\ id # excludeID

\* SELECT COUNT(*) FROM commands WHERE TRIM(name) = ? AND id != ?
IsDuplicateName(table, name, excludeID) ==
    \E id \in DOMAIN table : SqlTrim(table[id].Name) = TrimSpace(name) /\ id # excludeID

\* SELECT COUNT(*) FROM queries WHERE TRIM(sql) = ? AND id != ?
IsDuplicateQuerySQL(table, sql, excludeID) ==
    \E id \in DOMAIN table : SqlTrim(table[id].SQL) = TrimSpace(sql) /\ id # excludeID

\* INSERT INTO commands (name, cmd, description) VALUES (?, ?, ?)
AddCommand(table, id, name, cmd, t) ==
    [i \in DOMAIN table \cup {id} |->
        IF i = id
        THEN [ID |-> id, Name |-> name, Cmd |-> cmd, CreatedAt |-> t,
              LastUsedAt |-> 0, LastParams |-> NoJSON]
        ELSE table[i]]

\* INSERT INTO queries (name, sql, description) VALUES (?, ?, ?)
AddQuery(table, id, name, sql, t) ==
    [i \in DOMAIN table \cup {id} |->
        IF i = id
        THEN [ID |-> id, Name |-> name, SQL |-> sql, CreatedAt |-> t, LastUsedAt |-> 0]
        ELSE table[i]]

\* UPDATE commands SET name = ?, cmd = ?, description = ? WHERE id = ?
UpdateCommand(table, id, name, cmd) ==
    [i \in DOMAIN table |->
        IF i = id THEN [table[i] EXCEPT !.Name = name, !.Cmd = cmd] ELSE table[i]]

\* UPDATE queries SET name = ?, sql = ?, description = ? WHERE id = ?
UpdateQuery(table, id, name, sql) ==
    [i \in DOMAIN table |->
        IF i = id THEN [table[i] EXCEPT !.Name = name, !.SQL = sql] ELSE table[i]]

\* DELETE FROM commands WHERE id = ? / DELETE FROM queries WHERE id = ?
DeleteRow(table, id) == [i \in DOMAIN table \ {id} |-> table[i]]

(***************************************************************************)
(* State.                                                                  *)
(***************************************************************************)
VARIABLES
    \* placeholder-engine specification: the template, the result of
    \* ExtractParams, the supplied mapping, the result of SubstituteParams
    pT, pInfos, pVals, pRes, ppc,
    \* the store: the commands and queries tables, time.Now(), and the number
    \* of store calls that have failed
    dbCommands, dbQueries, now, fails,
    \* the AUTOINCREMENT counters of the two tables (sqlite_sequence)
    seq,
    \* the fields of App
    mode, tab, cursor, err, status, searchInput,
    commands, filtered, queries, filteredQueries,
    outputLines, running, outputChan,
    paramInfos, paramValues, paramInput, pendingCmd,
    \* the add/edit form: the IDs of editingCmd and editingQuery (0 is nil), the
    \* name input and the body input (cmd input or sqlTextarea), and formFocus
    editingCmd, editingQuery, formInputs, formFocus,
    \* whether Update has returned tea.Quit, and the number of key events so far
    quit, keys,
    \* the bounds of the specification: [runs, lines, keys]
    caps,
    \* the goroutines of runner.Run, one record per started run; the channel of
    \* run r is r, and 0 is the nil channel
    runs,
    \* the commands returned by waitForOutput that block in <-ch, per channel
    waitsOn,
    \* the messages such a command has received and not yet handed to Update
    inflight

pvars == <<pT, pInfos, pVals, pRes, ppc>>

dbvars == <<dbCommands, dbQueries, now, fails, seq>>

listvars == <<commands, filtered, queries, filteredQueries>>

paramvars == <<paramInfos, paramValues, paramInput, pendingCmd>>

formvars == <<editingCmd, editingQuery, formInputs, formFocus>>

streamvars == <<runs, waitsOn, inflight>>

appvars ==
    <<mode, tab, cursor, err, status, searchInput, listvars,
      outputLines, running, outputChan, paramvars, formvars, quit, keys>>

vars == <<pvars, dbvars, appvars, streamvars, caps>>

(***************************************************************************)
(* Values.                                                                 *)
(***************************************************************************)
Sp == " "

\* a.err / a.status: the text and, for "Missing params: ", the joined names
Msg(text, detail) == <<text, detail>>

NoMsg == Msg("", <<>>)

\* a nil *model.Command
NoCmd ==
    [ID |-> 0, Name |-> <<>>, Cmd |-> <<>>, CreatedAt |-> 0, LastUsedAt |-> 0,
     LastParams |-> NoJSON]

\* the commands table the program starts from: a command without placeholder,
\* one with two placeholders, and one with a sensitive placeholder and a name
\* that occurs in both forms
InitialCommands ==
    LET row(id, name, cmd) ==
            [ID |-> id, Name |-> name, Cmd |-> cmd, CreatedAt |-> id,
             LastUsedAt |-> 0, LastParams |-> NoJSON]
    IN  [id \in {1, 2, 3} |->
            CASE id = 1 -> row(1, <<"x">>,
                               Secret(<<"p">>) \o <<Sp>> \o Plain(<<"u">>) \o Secret(<<"u">>))
              [] id = 2 -> row(2, <<"s">>,
                               <<"s", Sp>> \o Plain(<<"u">>) \o <<"@">> \o Plain(<<"h">>))
              [] id = 3 -> row(3, <<"l">>, <<"l">>)]

\* the queries table the program starts from
InitialQueries ==
    [id \in {1, 2} |->
        [ID |-> id, Name |-> IF id = 1 THEN <<"a">> ELSE <<"b">>,
         SQL |-> IF id = 1 THEN <<"s", "a">> ELSE <<"s", "b">>,
         CreatedAt |-> id, LastUsedAt |-> 0]]

\* a.formInputs before the first form is opened, and a freshly built form
NoForm == [name |-> <<>>, body |-> <<>>]

\* the search texts the user types
SearchTexts == { <<>>, <<"s">> }

\* the lines the user leaves in the parameter input
InputLines ==
    { <<>>,
      <<"u", Eq, "a", Sp, "h", Eq, "b">>,
      <<"h", Eq, "b", Sp, Sp, "u", Eq, "a">>,
      <<"u", Eq, "a">>,
      <<"u", Sp, Eq, "a", Sp, "h", Eq, "b">>,
      <<"u", Eq, Sp, "h", Eq, "a", Eq, "b">>,
      <<"p", Eq, "e", Sp, "u", Eq, "a">>,
      <<"p", Eq, "e">>,
      <<"u", Eq>> \o Plain(<<"h">>) \o <<Sp, "h", Eq, "b">>,
      <<"p", Eq, "e", Sp, "u", Eq, "a", Sp, Bang, "u", Eq, "b">> }

\* the first line of the output pane: cmdPreviewStyle.Render("$ " + finalCmd)
HeaderLine(r, finalCmd) ==
    [kind |-> "header", run |-> r, isErr |-> FALSE, idx |-> 0, cmd |-> finalCmd, msg |-> ""]

BlankLine == [kind |-> "blank", run |-> 0, isErr |-> FALSE, idx |-> 0, cmd |-> <<>>, msg |-> ""]

\* a line of child output; errorStyle.Render(line) when isErr
OutputLine(m) ==
    [kind |-> "line", run |-> m.run, isErr |-> m.IsErr, idx |-> m.idx, cmd |-> <<>>, msg |-> ""]

\* errorStyle.Render("Error: " + msg.ErrMsg)
ErrorLine(m) ==
    [kind |-> "error", run |-> m.run, isErr |-> TRUE, idx |-> 0, cmd |-> <<>>, msg |-> m.ErrMsg]

\* the SQL text shown by Enter on the SQL tab
SqlLine(sql) ==
    [kind |-> "sql", run |-> 0, isErr |-> FALSE, idx |-> 0, cmd |-> sql, msg |-> ""]

\* OutputMsg{Line, IsErr}: the idx-th line the child of run r wrote to the stream
LineMsg(r, isErr, i) ==
    [run |-> r, Done |-> FALSE, IsErr |-> isErr, idx |-> i, ErrMsg |-> "", closed |-> FALSE]

\* OutputMsg{Done: true, ErrMsg}
DoneMsg(r, errMsg) ==
    [run |-> r, Done |-> TRUE, IsErr |-> FALSE, idx |-> 0, ErrMsg |-> errMsg, closed |-> FALSE]

\* outputMsg{Done: true}, made by waitForOutput when the channel is closed
ClosedMsg(r) ==
    [run |-> r, Done |-> TRUE, IsErr |-> FALSE, idx |-> 0, ErrMsg |-> "", closed |-> TRUE]

Streams == {"out", "err"}

\* the goroutine of Run(finalCmd, ch) before its first step
NewRun(finalCmd) ==
    [pc |-> "start", cmd |-> finalCmd, errMsg |-> "",
     rd |-> [s \in Streams |-> [pc |-> "idle", n |-> 0]],
     doneSent |-> 0]

(***************************************************************************)
(* The placeholder engine applied to bounded templates and mappings.       *)
(***************************************************************************)
Pieces ==
    { Plain(<<"a">>), Secret(<<"a">>), Plain(<<"b">>), Secret(<<"b">>),
      <<"x">>, <<LBrace, LBrace>>, <<RBrace, RBrace>> }

Templates ==
    UNION { {Concat(ps) : ps \in [1..n -> Pieces]} : n \in 0..MaxPieces }

PValues == { <<>>, <<"b">>, Plain(<<"b">>) }

ParamNames(infos) == {infos[i].Name : i \in DOMAIN infos}

\* NewApp: the state of the program after construction
InitApp ==
    /\ dbCommands = InitialCommands
    /\ dbQueries = InitialQueries
    /\ now = Cardinality(DOMAIN InitialCommands) + 1
    /\ fails = 0
    /\ seq = [commands |-> Cardinality(DOMAIN InitialCommands),
              queries |-> Cardinality(DOMAIN InitialQueries)]
    /\ editingCmd = 0
    /\ editingQuery = 0
    /\ formInputs = NoForm
    /\ formFocus = 0
    /\ mode = "Normal"
    /\ tab = "Bash"
    /\ cursor = 0
    /\ err = NoMsg
    /\ status = NoMsg
    /\ searchInput = <<>>
    /\ commands = ListRows(InitialCommands)
    /\ filtered = ListRows(InitialCommands)
    /\ queries = ListRows(InitialQueries)
    /\ filteredQueries = ListRows(InitialQueries)
    /\ outputLines = <<>>
    /\ running = FALSE
    /\ outputChan = 0
    /\ paramInfos = <<>>
    /\ paramValues = <<>>
    /\ paramInput = <<>>
    /\ pendingCmd = NoCmd
    /\ quit = FALSE
    /\ keys = 0
    /\ runs = <<>>
    /\ waitsOn = [c \in 0..caps.runs |-> 0]
    /\ inflight = EmptyBag

InitParams ==
    /\ pT \in Templates
    /\ pInfos = <<>>
    /\ pVals = <<>>
    /\ pRes = <<>>
    /\ ppc = "init"
    /\ caps = [runs |-> MaxRuns, lines |-> MaxLines, keys |-> MaxKeys, fails |-> MaxFails]
    /\ InitApp

PExtract ==
    /\ ppc = "init"
    /\ pInfos' = ExtractParams(pT)
    /\ ppc' = "extracted"
    /\ UNCHANGED <<pT, pVals, pRes, dbvars, appvars, streamvars, caps>>

PSubstitute ==
    /\ ppc = "extracted"
    /\ \E values \in [ParamNames(pInfos) -> PValues] :
         \E order \in MapOrders(DOMAIN values) :
            /\ pVals' = values
            /\ pRes' = SubstituteParams(pT, values, order)
    /\ ppc' = "done"
    /\ UNCHANGED <<pT, pInfos, dbvars, appvars, streamvars, caps>>

NextParams == PExtract \/ PSubstitute

SpecParams == InitParams /\ [][NextParams]_vars

\* the names a caller of SubstituteParams may supply: names of the templates,
\* a name that occurs in no template, and a name that is not a word
SubstNames == { <<"a">>, <<"b">>, <<"e">>, <<Bang, "a">> }

\* SubstituteParams(pT, values) for a mapping that need not have the names of
\* the template: some may be missing and others may not occur in it
PSubstituteAny ==
    /\ ppc = "extracted"
    /\ \E ns \in SUBSET SubstNames :
         /\ Cardinality(ns) <= MaxSupplied
         /\ \E values \in [ns -> PValues] :
              \E order \in MapOrders(DOMAIN values) :
                 /\ pVals' = values
                 /\ pRes' = SubstituteParams(pT, values, order)
    /\ ppc' = "done"
    /\ UNCHANGED <<pT, pInfos, dbvars, appvars, streamvars, caps>>

NextSubst == PExtract \/ PSubstituteAny

\* SubstituteParams under mappings of any names
SpecSubst == InitParams /\ [][NextSubst]_vars

(***************************************************************************)
(* The process streamer: runner.Run and its two readers.                   *)
(***************************************************************************)
\* the failures that make Run return before the readers are started
LaunchErrors == {"stdout pipe", "stderr pipe", "start"}

\* Run that returns on a launch failure without sending the terminal event
RunLaunch_NoEvent(r) ==
    /\ ~quit
    /\ runs[r].pc = "start"
    /\ \/ runs' = [runs EXCEPT ![r].pc = "close", ![r].cmd = <<>>]
       \/ runs' = [runs EXCEPT ![r].pc = "stream", ![r].cmd = <<>>,
                               ![r].rd = [s \in Streams |-> [pc |-> "scan", n |-> 0]]]
    /\ UNCHANGED <<caps, pvars, dbvars, appvars, waitsOn, inflight>>

\* c.StdoutPipe(), c.StderrPipe(), c.Start(): a failure is sent as the terminal
\* event, otherwise the two readers are started
RunLaunch(r) ==
    /\ ~quit
    /\ runs[r].pc = "start"
    /\ \/ \E e \in LaunchErrors :
            runs' = [runs EXCEPT ![r].pc = "send", ![r].cmd = <<>>, ![r].errMsg = e]
       \/ runs' = [runs EXCEPT ![r].pc = "stream", ![r].cmd = <<>>,
                               ![r].rd = [s \in Streams |-> [pc |-> "scan", n |-> 0]]]
    /\ UNCHANGED <<caps, pvars, dbvars, appvars, waitsOn, inflight>>

\* streamReader: scanner.Scan() returns the next line of the pipe and
\* output <- OutputMsg{Line, IsErr} hands it to a command blocked in <-ch
ReaderSend(r, s) ==
    /\ ~quit
    /\ runs[r].rd[s].pc = "scan"
    /\ runs[r].rd[s].n < caps.lines
    /\ waitsOn[r] > 0
    /\ runs' = [runs EXCEPT ![r].rd[s].n = @ + 1]
    /\ waitsOn' = [waitsOn EXCEPT ![r] = @ - 1]
    /\ inflight' = inflight (+) SetToBag({LineMsg(r, s = "err", runs[r].rd[s].n + 1)})
    /\ UNCHANGED <<caps, pvars, dbvars, appvars>>

\* streamReader: scanner.Scan() returns false at end-of-stream; done <- struct{}{}
ReaderEOF(r, s) ==
    /\ ~quit
    /\ runs[r].rd[s].pc = "scan"
    /\ runs' = [runs EXCEPT ![r].rd[s] = [pc |-> "exit", n |-> 0]]
    /\ UNCHANGED <<caps, pvars, dbvars, appvars, waitsOn, inflight>>

\* streamReader: scanner.Scan() returns false before end-of-stream, on a line
\* longer than bufio.MaxScanTokenSize or a failed read; done <- struct{}{} is
\* sent while the child's further output is unread
ReaderTooLong(r, s) ==
    /\ ~quit
    /\ runs[r].rd[s].pc = "scan"
    /\ runs' = [runs EXCEPT ![r].rd[s] = [pc |-> "stopped", n |-> 0]]
    /\ UNCHANGED <<caps, pvars, dbvars, appvars, waitsOn, inflight>>

\* the reader goroutine of stream s has sent its token on the done channel
ReaderReturned(r, s) == runs[r].rd[s].pc \in {"exit", "stopped"}

\* Run that waits for one reader only before the terminal event
RunWait_OneReader(r) ==
    /\ ~quit
    /\ runs[r].pc = "stream"
    /\ \E s \in Streams : runs[r].rd[s].pc = "exit"
    /\ \E e \in {"", "exit status 1"} :
         runs' = [runs EXCEPT ![r].pc = "send", ![r].errMsg = e]
    /\ UNCHANGED <<caps, pvars, dbvars, appvars, waitsOn, inflight>>

\* <-done twice, then c.Wait(): the exit status decides the terminal event
RunWait(r) ==
    /\ ~quit
    /\ runs[r].pc = "stream"
    /\ \A s \in Streams : ReaderReturned(r, s)
    /\ \E e \in {"", "exit status 1"} :
         runs' = [runs EXCEPT ![r].pc = "send", ![r].errMsg = e]
    /\ UNCHANGED <<caps, pvars, dbvars, appvars, waitsOn, inflight>>

\* output <- OutputMsg{Done: true, ErrMsg}: received by a command blocked in <-ch
RunSendDone(r) ==
    /\ ~quit
    /\ runs[r].pc = "send"
    /\ waitsOn[r] > 0
    /\ runs' = [runs EXCEPT ![r].pc = "close", ![r].errMsg = "", ![r].doneSent = @ + 1]
    /\ waitsOn' = [waitsOn EXCEPT ![r] = @ - 1]
    /\ inflight' = inflight (+) SetToBag({DoneMsg(r, runs[r].errMsg)})
    /\ UNCHANGED <<caps, pvars, dbvars, appvars>>

\* defer close(output)
RunClose(r) ==
    /\ ~quit
    /\ runs[r].pc = "close"
    /\ runs' = [runs EXCEPT ![r].pc = "closed"]
    /\ UNCHANGED <<caps, pvars, dbvars, appvars, waitsOn, inflight>>

\* waitForOutput: msg, ok := <-ch with ok = false on a closed channel
WaitClosed(r) ==
    /\ ~quit
    /\ runs[r].pc = "closed"
    /\ waitsOn[r] > 0
    /\ waitsOn' = [waitsOn EXCEPT ![r] = @ - 1]
    /\ inflight' = inflight (+) SetToBag({ClosedMsg(r)})
    /\ UNCHANGED <<caps, pvars, dbvars, appvars, runs>>

\* a step of some goroutine of the streamer or of a waitForOutput command
StreamerStep ==
    \E r \in DOMAIN runs :
        \/ RunLaunch(r)
        \/ \E s \in Streams : ReaderSend(r, s) \/ ReaderEOF(r, s)
        \/ RunWait(r)
        \/ RunSendDone(r)
        \/ RunClose(r)
        \/ WaitClosed(r)

(***************************************************************************)
(* The interaction state machine: App.Update.                              *)
(***************************************************************************)
Max0(n) == IF n > 0 THEN n ELSE 0

\* c.Name + " " + c.Cmd for every command
CommandTargets(cmds) == [i \in DOMAIN cmds |-> cmds[i].Name \o <<Sp>> \o cmds[i].Cmd]

\* q.Name + " " + q.SQL for every query
QueryTargets(qs) == [i \in DOMAIN qs |-> qs[i].Name \o <<Sp>> \o qs[i].SQL]

\* filterCommands / filterQueries: the visible list and the cursor they leave
filterOutcomes(query, rows, targets, cur) ==
    IF query = <<>> THEN {[rows |-> rows, cursor |-> cur]}
    ELSE {[rows |-> [i \in DOMAIN o |-> rows[o[i]]],
           cursor |-> IF cur >= Len(o) THEN Max0(Len(o) - 1) ELSE cur] :
              o \in FuzzyFind(query, targets)}

\* refreshCommands: a failing List leaves the lists alone and sets a.err
refreshCommands(table, listFails) ==
    IF listFails
    THEN /\ err' = Msg("db error", <<>>)
         /\ UNCHANGED <<commands, filtered, cursor>>
    ELSE /\ err' = NoMsg
         /\ commands' = ListRows(table)
         /\ \E f \in filterOutcomes(searchInput, ListRows(table),
                                    CommandTargets(ListRows(table)), cursor) :
               /\ filtered' = f.rows
               /\ cursor' = f.cursor

\* refreshQueries
refreshQueries(table, listFails) ==
    IF listFails
    THEN /\ err' = Msg("db error", <<>>)
         /\ UNCHANGED <<queries, filteredQueries, cursor>>
    ELSE /\ err' = NoMsg
         /\ queries' = ListRows(table)
         /\ \E f \in filterOutcomes(searchInput, ListRows(table),
                                    QueryTargets(ListRows(table)), cursor) :
               /\ filteredQueries' = f.rows
               /\ cursor' = f.cursor

BoolToNat(b) == IF b THEN 1 ELSE 0

\* executeCommand that adds the echo header below the output already shown
executeCommand_KeepOutput(cmd, values) ==
    /\ Len(runs) < caps.runs
    /\ \E order \in MapOrders(DOMAIN values), usedFails, saveFails, listFails \in BOOLEAN :
         LET finalCmd == SubstituteParams(cmd.Cmd, values, order)
             save == Len(paramInfos) > 0
             nFail == BoolToNat(usedFails) + BoolToNat(saveFails) + BoolToNat(listFails)
             db1 == IF usedFails THEN dbCommands
                    ELSE SetLastUsed(dbCommands, cmd.ID, now)
             db2 == IF save /\ ~saveFails
                    THEN SetLastParams(db1, cmd.ID, ToSave(paramInfos, values))
                    ELSE db1
             r == Len(runs) + 1
         IN  /\ saveFails => save
             /\ fails + nFail <= caps.fails
             /\ fails' = fails + nFail
             /\ dbCommands' = db2
             /\ now' = now + 1
             /\ paramValues' = values
             /\ pendingCmd' = cmd
             /\ running' = TRUE
             /\ outputLines' = outputLines \o <<HeaderLine(r, finalCmd), BlankLine>>
             /\ mode' = "Normal"
             /\ refreshCommands(db2, listFails)
             /\ outputChan' = r
             /\ runs' = Append(runs, NewRun(finalCmd))
             /\ waitsOn' = [waitsOn EXCEPT ![r] = @ + 1]
    /\ status' = NoMsg
    /\ UNCHANGED <<caps, pvars, formvars, seq, dbQueries, tab, searchInput, queries, filteredQueries,
                   paramInfos, paramInput, quit, inflight>>

\* executeCommand with a.pendingCmd = cmd and a.paramValues = values
executeCommand(cmd, values) ==
    /\ Len(runs) < caps.runs
    /\ \E order \in MapOrders(DOMAIN values), usedFails, saveFails, listFails \in BOOLEAN :
         LET finalCmd == SubstituteParams(cmd.Cmd, values, order)
             save == Len(paramInfos) > 0
             nFail == BoolToNat(usedFails) + BoolToNat(saveFails) + BoolToNat(listFails)
             db1 == IF usedFails THEN dbCommands
                    ELSE SetLastUsed(dbCommands, cmd.ID, now)
             db2 == IF save /\ ~saveFails
                    THEN SetLastParams(db1, cmd.ID, ToSave(paramInfos, values))
                    ELSE db1
             r == Len(runs) + 1
         IN  /\ saveFails => save
             /\ fails + nFail <= caps.fails
             /\ fails' = fails + nFail
             /\ dbCommands' = db2
             /\ now' = now + 1
             /\ paramValues' = values
             /\ pendingCmd' = cmd
             /\ running' = TRUE
             /\ outputLines' = <<HeaderLine(r, finalCmd), BlankLine>>
             /\ mode' = "Normal"
             /\ refreshCommands(db2, listFails)
             /\ outputChan' = r
             /\ runs' = Append(runs, NewRun(finalCmd))
             /\ waitsOn' = [waitsOn EXCEPT ![r] = @ + 1]
    /\ status' = NoMsg
    /\ UNCHANGED <<caps, pvars, formvars, seq, dbQueries, tab, searchInput, queries, filteredQueries,
                   paramInfos, paramInput, quit, inflight>>

\* runSelectedCommand for a command with placeholders: enter Param mode with
\* the pre-seeded line
enterParam(cmd, params) ==
    /\ mode' = "Param"
    /\ paramInfos' = params
    /\ paramValues' = <<>>
    /\ pendingCmd' = cmd
    /\ paramInput' = Join(SeedParts(params, jsonUnmarshal(cmd.LastParams), 1), <<Sp>>)
    /\ err' = NoMsg
    /\ status' = NoMsg
    /\ UNCHANGED <<caps, pvars, formvars, dbvars, tab, cursor, searchInput, listvars,
                   outputLines, running, outputChan, quit, streamvars>>

\* runSelectedCommand that never asks for parameters
runSelectedCommand_NoParam ==
    LET cmd == filtered[cursor + 1]
    IN  executeCommand(cmd, paramValues)

runSelectedCommand ==
    LET cmd == filtered[cursor + 1]
        params == ExtractParams(cmd.Cmd)
    IN  IF Len(params) > 0 THEN enterParam(cmd, params)
        ELSE executeCommand(cmd, paramValues)

\* listLen
listLen == IF tab = "Bash" THEN Len(filtered) ELSE Len(filteredQueries)

\* a.filtered[a.cursor] or a.filteredQueries[a.cursor] with the cursor
\* past the end of the list: the runtime panics and the program ends
indexPanic ==
    /\ quit' = TRUE
    /\ err' = Msg("panic: index out of range", <<>>)
    /\ status' = NoMsg
    /\ UNCHANGED <<caps, pvars, formvars, dbvars, mode, tab, cursor, searchInput, listvars,
                   outputLines, running, outputChan, paramvars, streamvars>>

\* a key that only clears a.err and a.status
keyNoop ==
    /\ err' = NoMsg
    /\ status' = NoMsg
    /\ UNCHANGED <<caps, pvars, formvars, dbvars, mode, tab, cursor, searchInput, listvars,
                   outputLines, running, outputChan, paramvars, quit, streamvars>>

\* case outputMsg of Update that handles events in Normal mode only
HandleOutputMsg_NormalOnly ==
    /\ ~quit
    /\ mode = "Normal"
    /\ \E m \in BagToSet(inflight) :
         /\ inflight' = inflight (-) SetToBag({m})
         /\ IF m.Done
            THEN /\ running' = FALSE
                 /\ outputChan' = 0
                 /\ outputLines' = IF m.ErrMsg # "" THEN Append(outputLines, ErrorLine(m))
                                   ELSE outputLines
                 /\ UNCHANGED waitsOn
            ELSE /\ outputLines' = Append(outputLines, OutputLine(m))
                 /\ waitsOn' = [waitsOn EXCEPT ![outputChan] = @ + 1]
                 /\ UNCHANGED <<running, outputChan>>
    /\ UNCHANGED <<caps, pvars, formvars, dbvars, mode, tab, cursor, err, status, searchInput, listvars,
                   paramvars, quit, keys, runs>>

\* case outputMsg of Update that shows a failure message in place of the
\* output so far
HandleOutputMsg_ErrorOnly ==
    /\ ~quit
    /\ \E m \in BagToSet(inflight) :
         /\ inflight' = inflight (-) SetToBag({m})
         /\ IF m.Done
            THEN /\ running' = FALSE
                 /\ outputChan' = 0
                 /\ outputLines' = IF m.ErrMsg # "" THEN <<ErrorLine(m)>>
                                   ELSE outputLines
                 /\ UNCHANGED waitsOn
            ELSE /\ outputLines' = Append(outputLines, OutputLine(m))
                 /\ waitsOn' = [waitsOn EXCEPT ![outputChan] = @ + 1]
                 /\ UNCHANGED <<running, outputChan>>
    /\ UNCHANGED <<caps, pvars, formvars, dbvars, mode, tab, cursor, err, status, searchInput, listvars,
                   paramvars, quit, keys, runs>>

\* case outputMsg of Update
HandleOutputMsg ==
    /\ ~quit
    /\ \E m \in BagToSet(inflight) :
         /\ inflight' = inflight (-) SetToBag({m})
         /\ IF m.Done
            THEN /\ running' = FALSE
                 /\ outputChan' = 0
                 /\ outputLines' = IF m.ErrMsg # "" THEN Append(outputLines, ErrorLine(m))
                                   ELSE outputLines
                 /\ UNCHANGED waitsOn
            ELSE /\ outputLines' = Append(outputLines, OutputLine(m))
                 /\ waitsOn' = [waitsOn EXCEPT ![outputChan] = @ + 1]
                 /\ UNCHANGED <<running, outputChan>>
    /\ UNCHANGED <<caps, pvars, formvars, dbvars, mode, tab, cursor, err, status, searchInput, listvars,
                   paramvars, quit, keys, runs>>

\* updateNormal: "ctrl+c", "Q"
UpdateNormalQuit ==
    /\ ~quit
    /\ keys < caps.keys
    /\ keys' = keys + 1
    /\ mode = "Normal"
    /\ quit' = TRUE
    /\ err' = NoMsg
    /\ status' = NoMsg
    /\ UNCHANGED <<caps, pvars, formvars, dbvars, mode, tab, cursor, searchInput, listvars,
                   outputLines, running, outputChan, paramvars, streamvars>>

\* updateNormal: "tab"
UpdateNormalTab ==
    /\ ~quit
    /\ keys < caps.keys
    /\ keys' = keys + 1
    /\ mode = "Normal"
    /\ cursor' = 0
    /\ searchInput' = <<>>
    /\ outputLines' = <<>>
    /\ tab' = IF tab = "Bash" THEN "SQL" ELSE "Bash"
    /\ IF tab = "Bash"
       THEN filteredQueries' = queries /\ UNCHANGED filtered
       ELSE filtered' = commands /\ UNCHANGED filteredQueries
    /\ err' = NoMsg
    /\ status' = NoMsg
    /\ UNCHANGED <<caps, pvars, formvars, dbvars, mode, commands, queries,
                   running, outputChan, paramvars, quit, streamvars>>

\* updateNormal: "up", "k"
UpdateNormalUp ==
    /\ ~quit
    /\ keys < caps.keys
    /\ keys' = keys + 1
    /\ mode = "Normal"
    /\ cursor' = IF cursor > 0 THEN cursor - 1 ELSE cursor
    /\ err' = NoMsg
    /\ status' = NoMsg
    /\ UNCHANGED <<caps, pvars, formvars, dbvars, mode, tab, searchInput, listvars,
                   outputLines, running, outputChan, paramvars, quit, streamvars>>

\* updateNormal: "down", "j"
UpdateNormalDown ==
    /\ ~quit
    /\ keys < caps.keys
    /\ keys' = keys + 1
    /\ mode = "Normal"
    /\ cursor' = IF cursor < listLen - 1 THEN cursor + 1 ELSE cursor
    /\ err' = NoMsg
    /\ status' = NoMsg
    /\ UNCHANGED <<caps, pvars, formvars, dbvars, mode, tab, searchInput, listvars,
                   outputLines, running, outputChan, paramvars, quit, streamvars>>

\* "enter" on the SQL tab that marks the application as running
viewQuery_MarksRunning ==
    /\ \E usedFails, listFails \in BOOLEAN :
         LET q == filteredQueries[cursor + 1]
             nFail == BoolToNat(usedFails) + BoolToNat(listFails)
             db1 == IF usedFails THEN dbQueries ELSE SetLastUsed(dbQueries, q.ID, now)
         IN  /\ fails + nFail <= caps.fails
             /\ fails' = fails + nFail
             /\ outputLines' = <<SqlLine(q.SQL)>>
             /\ dbQueries' = db1
             /\ now' = now + 1
             /\ refreshQueries(db1, listFails)
    /\ status' = NoMsg
    /\ running' = TRUE
    /\ UNCHANGED <<caps, pvars, formvars, seq, dbCommands, mode, tab, searchInput, commands, filtered,
                   outputChan, paramvars, quit, streamvars>>

\* updateNormal: "enter" on the SQL tab shows the query and marks it used
viewQuery ==
    /\ \E usedFails, listFails \in BOOLEAN :
         LET q == filteredQueries[cursor + 1]
             nFail == BoolToNat(usedFails) + BoolToNat(listFails)
             db1 == IF usedFails THEN dbQueries ELSE SetLastUsed(dbQueries, q.ID, now)
         IN  /\ fails + nFail <= caps.fails
             /\ fails' = fails + nFail
             /\ outputLines' = <<SqlLine(q.SQL)>>
             /\ dbQueries' = db1
             /\ now' = now + 1
             /\ refreshQueries(db1, listFails)
    /\ status' = NoMsg
    /\ UNCHANGED <<caps, pvars, formvars, seq, dbCommands, mode, tab, searchInput, commands, filtered,
                   running, outputChan, paramvars, quit, streamvars>>

\* updateNormal: "enter"
UpdateNormalEnter ==
    /\ ~quit
    /\ keys < caps.keys
    /\ keys' = keys + 1
    /\ mode = "Normal"
    /\ IF listLen = 0 THEN keyNoop
       ELSE IF cursor >= listLen THEN indexPanic
       ELSE IF tab = "Bash" THEN runSelectedCommand ELSE viewQuery

\* "C" that also detaches the run from the event loop
UpdateNormalClear_Detach ==
    /\ ~quit
    /\ keys < caps.keys
    /\ keys' = keys + 1
    /\ mode = "Normal"
    /\ outputLines' = <<>>
    /\ running' = FALSE
    /\ outputChan' = 0
    /\ err' = NoMsg
    /\ status' = NoMsg
    /\ UNCHANGED <<caps, pvars, formvars, dbvars, mode, tab, cursor, searchInput, listvars,
                   paramvars, quit, streamvars>>

\* updateNormal: "C"
UpdateNormalClear ==
    /\ ~quit
    /\ keys < caps.keys
    /\ keys' = keys + 1
    /\ mode = "Normal"
    /\ outputLines' = <<>>
    /\ err' = NoMsg
    /\ status' = NoMsg
    /\ UNCHANGED <<caps, pvars, formvars, dbvars, mode, tab, cursor, searchInput, listvars,
                   running, outputChan, paramvars, quit, streamvars>>

\* updateNormal: "Y" copies the selected item; clipboard.WriteAll may fail
UpdateNormalCopy ==
    /\ ~quit
    /\ keys < caps.keys
    /\ keys' = keys + 1
    /\ mode = "Normal"
    /\ IF listLen = 0 THEN keyNoop
       ELSE IF cursor >= listLen THEN indexPanic
       ELSE /\ \/ err' = NoMsg /\ status' = Msg("Copied!", <<>>)
               \/ err' = Msg("Failed to copy: ", <<>>) /\ status' = NoMsg
            /\ UNCHANGED <<caps, pvars, formvars, dbvars, mode, tab, cursor, searchInput,
                           listvars, outputLines, running, outputChan, paramvars, quit,
                           streamvars>>

\* filterItems after the search text became query
searchTo(query) ==
    /\ searchInput' = query
    /\ IF tab = "Bash"
       THEN /\ \E f \in filterOutcomes(query, commands, CommandTargets(commands), cursor) :
                 filtered' = f.rows /\ cursor' = f.cursor
            /\ UNCHANGED filteredQueries
       ELSE /\ \E f \in filterOutcomes(query, queries, QueryTargets(queries), cursor) :
                 filteredQueries' = f.rows /\ cursor' = f.cursor
            /\ UNCHANGED filtered
    /\ err' = NoMsg
    /\ status' = NoMsg
    /\ UNCHANGED <<caps, pvars, formvars, dbvars, mode, tab, commands, queries,
                   outputLines, running, outputChan, paramvars, quit, streamvars>>

\* updateNormal: "esc"
UpdateNormalEsc ==
    /\ ~quit
    /\ keys < caps.keys
    /\ keys' = keys + 1
    /\ mode = "Normal"
    /\ searchTo(<<>>)

\* updateNormal: any other key edits the search text
UpdateNormalType ==
    /\ ~quit
    /\ keys < caps.keys
    /\ keys' = keys + 1
    /\ mode = "Normal"
    /\ \E query \in SearchTexts : searchTo(query)

\* updateParam: "ctrl+c"
UpdateParamQuit ==
    /\ ~quit
    /\ keys < caps.keys
    /\ keys' = keys + 1
    /\ mode = "Param"
    /\ quit' = TRUE
    /\ err' = NoMsg
    /\ status' = NoMsg
    /\ UNCHANGED <<caps, pvars, formvars, dbvars, mode, tab, cursor, searchInput, listvars,
                   outputLines, running, outputChan, paramvars, streamvars>>

\* updateParam: "esc"
UpdateParamEsc ==
    /\ ~quit
    /\ keys < caps.keys
    /\ keys' = keys + 1
    /\ mode = "Param"
    /\ mode' = "Normal"
    /\ err' = NoMsg
    /\ status' = NoMsg
    /\ UNCHANGED <<caps, pvars, formvars, dbvars, tab, cursor, searchInput, listvars,
                   outputLines, running, outputChan, paramvars, quit, streamvars>>

\* updateParam: "enter"
UpdateParamEnter ==
    /\ ~quit
    /\ keys < caps.keys
    /\ keys' = keys + 1
    /\ mode = "Param"
    /\ LET parsed == parseInlineParams(paramInput)
           missing == MissingParams(paramInfos, parsed)
       IN  IF Len(missing) > 0
           THEN /\ err' = Msg("Missing params: ", missing)
                /\ status' = NoMsg
                /\ UNCHANGED <<caps, pvars, formvars, dbvars, mode, tab, cursor, searchInput, listvars,
                               outputLines, running, outputChan, paramvars, quit,
                               streamvars>>
           ELSE executeCommand(pendingCmd, parsed)

\* updateParam: any other key edits the parameter line
UpdateParamType ==
    /\ ~quit
    /\ keys < caps.keys
    /\ keys' = keys + 1
    /\ mode = "Param"
    /\ \E line \in InputLines : paramInput' = line
    /\ err' = NoMsg
    /\ status' = NoMsg
    /\ UNCHANGED <<caps, pvars, formvars, dbvars, mode, tab, cursor, searchInput, listvars,
                   outputLines, running, outputChan, paramInfos, paramValues, pendingCmd,
                   quit, streamvars>>

\* the contents the user leaves in the name and command inputs of the Bash form
FormFills ==
    { [name |-> <<"n">>, body |-> <<"l", Sp>>],
      [name |-> <<Sp, "l">>, body |-> <<"m">>],
      [name |-> <<"n">>, body |-> <<"m">>],
      [name |-> <<>>, body |-> <<"m">>],
      [name |-> <<"n">>, body |-> <<Sp>>] }

\* the contents the user leaves in the name input and the textarea of the SQL form
QueryFills ==
    { [name |-> <<"n">>, body |-> <<"s", "a", Sp>>],
      [name |-> <<"a">>, body |-> <<"m">>],
      [name |-> <<"n">>, body |-> <<"m">>] }

\* updateNormal: "A"; initForm(nil) / initQueryForm(nil)
UpdateNormalAdd ==
    /\ ~quit
    /\ keys < caps.keys
    /\ keys' = keys + 1
    /\ mode = "Normal"
    /\ mode' = "Add"
    /\ formInputs' = NoForm
    /\ formFocus' = 0
    /\ IF tab = "Bash"
       THEN editingQuery' = 0 /\ UNCHANGED editingCmd
       ELSE editingCmd' = 0 /\ UNCHANGED editingQuery
    /\ err' = NoMsg
    /\ status' = NoMsg
    /\ UNCHANGED <<caps, pvars, dbvars, tab, cursor, searchInput, listvars,
                   outputLines, running, outputChan, paramvars, quit, streamvars>>

\* "E" that opens the form without recording the item under edit
UpdateNormalEdit_NoItem ==
    /\ ~quit
    /\ keys < caps.keys
    /\ keys' = keys + 1
    /\ mode = "Normal"
    /\ IF listLen = 0 THEN keyNoop
       ELSE IF cursor >= listLen THEN indexPanic
       ELSE /\ mode' = "Edit"
            /\ formFocus' = 0
            /\ IF tab = "Bash"
               THEN LET cmd == filtered[cursor + 1]
                    IN  /\ editingQuery' = 0
                        /\ UNCHANGED editingCmd
                        /\ formInputs' = [name |-> cmd.Name, body |-> cmd.Cmd]
               ELSE LET q == filteredQueries[cursor + 1]
                    IN  /\ editingCmd' = 0
                        /\ UNCHANGED editingQuery
                        /\ formInputs' = [name |-> q.Name, body |-> q.SQL]
            /\ err' = NoMsg
            /\ status' = NoMsg
            /\ UNCHANGED <<caps, pvars, dbvars, tab, cursor, searchInput, listvars,
                           outputLines, running, outputChan, paramvars, quit, streamvars>>

\* updateNormal: "E"; initForm(&cmd) / initQueryForm(&q)
UpdateNormalEdit ==
    /\ ~quit
    /\ keys < caps.keys
    /\ keys' = keys + 1
    /\ mode = "Normal"
    /\ IF listLen = 0 THEN keyNoop
       ELSE IF cursor >= listLen THEN indexPanic
       ELSE /\ mode' = "Edit"
            /\ formFocus' = 0
            /\ IF tab = "Bash"
               THEN LET cmd == filtered[cursor + 1]
                    IN  /\ editingCmd' = cmd.ID
                        /\ editingQuery' = 0
                        /\ formInputs' = [name |-> cmd.Name, body |-> cmd.Cmd]
               ELSE LET q == filteredQueries[cursor + 1]
                    IN  /\ editingQuery' = q.ID
                        /\ editingCmd' = 0
                        /\ formInputs' = [name |-> q.Name, body |-> q.SQL]
            /\ err' = NoMsg
            /\ status' = NoMsg
            /\ UNCHANGED <<caps, pvars, dbvars, tab, cursor, searchInput, listvars,
                           outputLines, running, outputChan, paramvars, quit, streamvars>>

\* "D" that asks for confirmation whether or not a row is selected
UpdateNormalDelete_NoGuard ==
    /\ ~quit
    /\ keys < caps.keys
    /\ keys' = keys + 1
    /\ mode = "Normal"
    /\ mode' = "Delete"
    /\ err' = NoMsg
    /\ status' = NoMsg
    /\ UNCHANGED <<caps, pvars, formvars, dbvars, tab, cursor, searchInput, listvars,
                   outputLines, running, outputChan, paramvars, quit, streamvars>>

\* updateNormal: "D"
UpdateNormalDelete ==
    /\ ~quit
    /\ keys < caps.keys
    /\ keys' = keys + 1
    /\ mode = "Normal"
    /\ mode' = IF listLen > 0 THEN "Delete" ELSE mode
    /\ err' = NoMsg
    /\ status' = NoMsg
    /\ UNCHANGED <<caps, pvars, formvars, dbvars, tab, cursor, searchInput, listvars,
                   outputLines, running, outputChan, paramvars, quit, streamvars>>

\* updateForm: "ctrl+c"
UpdateFormQuit ==
    /\ ~quit
    /\ keys < caps.keys
    /\ keys' = keys + 1
    /\ mode \in {"Add", "Edit"}
    /\ quit' = TRUE
    /\ err' = NoMsg
    /\ status' = NoMsg
    /\ UNCHANGED <<caps, pvars, formvars, dbvars, mode, tab, cursor, searchInput, listvars,
                   outputLines, running, outputChan, paramvars, streamvars>>

\* "esc" in the form that also moves the cursor to the first row
UpdateFormEsc_ResetCursor ==
    /\ ~quit
    /\ keys < caps.keys
    /\ keys' = keys + 1
    /\ mode \in {"Add", "Edit"}
    /\ mode' = "Normal"
    /\ cursor' = 0
    /\ err' = NoMsg
    /\ status' = NoMsg
    /\ UNCHANGED <<caps, pvars, formvars, dbvars, tab, searchInput, listvars,
                   outputLines, running, outputChan, paramvars, quit, streamvars>>

\* updateForm: "esc"
UpdateFormEsc ==
    /\ ~quit
    /\ keys < caps.keys
    /\ keys' = keys + 1
    /\ mode \in {"Add", "Edit"}
    /\ mode' = "Normal"
    /\ err' = NoMsg
    /\ status' = NoMsg
    /\ UNCHANGED <<caps, pvars, formvars, dbvars, tab, cursor, searchInput, listvars,
                   outputLines, running, outputChan, paramvars, quit, streamvars>>

\* updateForm: "tab", "down", "shift+tab", "up" and the keys that edit the
\* input in focus, taken together: the contents and the focus they leave
UpdateFormEdit ==
    /\ ~quit
    /\ keys < caps.keys
    /\ keys' = keys + 1
    /\ mode \in {"Add", "Edit"}
    /\ formInputs' \in (IF tab = "Bash" THEN FormFills ELSE QueryFills)
    /\ formFocus' \in 0..2
    /\ err' = NoMsg
    /\ status' = NoMsg
    /\ UNCHANGED <<caps, pvars, editingCmd, editingQuery, dbvars, mode, tab, cursor,
                   searchInput, listvars, outputLines, running, outputChan, paramvars,
                   quit, streamvars>>

\* a validation message of the form: a.err is set and nothing else happens
formReject(text) ==
    /\ err' = Msg(text, <<>>)
    /\ status' = NoMsg
    /\ UNCHANGED <<caps, pvars, formvars, dbvars, mode, tab, cursor, searchInput, listvars,
                   outputLines, running, outputChan, paramvars, quit, streamvars>>

\* a store call of the form fails: a.err = err.Error() and nothing else happens
formDbError ==
    /\ fails < caps.fails
    /\ fails' = fails + 1
    /\ err' = Msg("db error", <<>>)
    /\ status' = NoMsg
    /\ UNCHANGED <<caps, pvars, formvars, dbCommands, dbQueries, now, seq, mode, tab,
                   cursor, searchInput, listvars, outputLines, running, outputChan,
                   paramvars, quit, streamvars>>

\* submitCommandForm
submitCommandForm ==
    LET name == TrimSpace(formInputs.name)
        cmd == TrimSpace(formInputs.body)
        excludeID == editingCmd
    IN  IF name = <<>> \/ cmd = <<>> THEN formReject("Name and command are required")
        ELSE
          \/ formDbError
          \/ IF IsDuplicateName(dbCommands, name, excludeID)
             THEN formReject("A command with this name already exists")
             ELSE IF IsDuplicateCmd(dbCommands, cmd, excludeID)
             THEN formReject("A command with this exact command already exists")
             ELSE \E listFails \in BOOLEAN :
                    LET id == seq.commands + 1
                        db1 == IF mode = "Add"
                               THEN AddCommand(dbCommands, id, name, cmd, now)
                               ELSE UpdateCommand(dbCommands, editingCmd, name, cmd)
                    IN  /\ listFails => fails < caps.fails
                        /\ fails' = fails + BoolToNat(listFails)
                        /\ dbCommands' = db1
                        /\ seq' = IF mode = "Add" THEN [seq EXCEPT !.commands = id] ELSE seq
                        /\ now' = now + 1
                        /\ status' = Msg(IF mode = "Add" THEN "Added!" ELSE "Updated!", <<>>)
                        /\ refreshCommands(db1, listFails)
                        /\ mode' = "Normal"
                        /\ UNCHANGED <<caps, pvars, formvars, dbQueries, tab, searchInput,
                                       queries, filteredQueries, outputLines, running,
                                       outputChan, paramvars, quit, streamvars>>

\* submitQueryForm
submitQueryForm ==
    LET name == TrimSpace(formInputs.name)
        sql == formInputs.body
        excludeID == editingQuery
    IN  IF name = <<>> \/ TrimSpace(sql) = <<>> THEN formReject("Name and SQL are required")
        ELSE
          \/ formDbError
          \/ IF IsDuplicateName(dbQueries, name, excludeID)
             THEN formReject("A query with this name already exists")
             ELSE IF IsDuplicateQuerySQL(dbQueries, sql, excludeID)
             THEN formReject("A query with this exact SQL already exists")
             ELSE \E listFails \in BOOLEAN :
                    LET id == seq.queries + 1
                        db1 == IF mode = "Add"
                               THEN AddQuery(dbQueries, id, name, sql, now)
                               ELSE UpdateQuery(dbQueries, editingQuery, name, sql)
                    IN  /\ listFails => fails < caps.fails
                        /\ fails' = fails + BoolToNat(listFails)
                        /\ dbQueries' = db1
                        /\ seq' = IF mode = "Add" THEN [seq EXCEPT !.queries = id] ELSE seq
                        /\ now' = now + 1
                        /\ status' = Msg(IF mode = "Add" THEN "Added!" ELSE "Updated!", <<>>)
                        /\ refreshQueries(db1, listFails)
                        /\ mode' = "Normal"
                        /\ UNCHANGED <<caps, pvars, formvars, dbCommands, tab, searchInput,
                                       commands, filtered, outputLines, running,
                                       outputChan, paramvars, quit, streamvars>>

\* submitForm
submitForm == IF tab = "SQL" THEN submitQueryForm ELSE submitCommandForm

\* updateForm: "S"
UpdateFormS ==
    /\ ~quit
    /\ keys < caps.keys
    /\ keys' = keys + 1
    /\ mode \in {"Add", "Edit"}
    /\ submitForm

\* updateForm: "enter" submits, except in the textarea of the SQL form where
\* it inserts a line feed
UpdateFormEnter ==
    /\ ~quit
    /\ keys < caps.keys
    /\ keys' = keys + 1
    /\ mode \in {"Add", "Edit"}
    /\ IF tab = "Bash" \/ formFocus # 1
       THEN submitForm
       ELSE /\ formInputs' = [formInputs EXCEPT !.body = Append(@, NL)]
            /\ err' = NoMsg
            /\ status' = NoMsg
            /\ UNCHANGED <<caps, pvars, editingCmd, editingQuery, formFocus, dbvars, mode,
                           tab, cursor, searchInput, listvars, outputLines, running,
                           outputChan, paramvars, quit, streamvars>>

\* the cursor after the reload that follows a delete
cursorAfterDelete(cur, len) == IF cur >= len /\ cur > 0 THEN cur - 1 ELSE cur

\* updateDelete: "y", "Y"
UpdateDeleteYes ==
    /\ ~quit
    /\ keys < caps.keys
    /\ keys' = keys + 1
    /\ mode = "Delete"
    /\ IF listLen = 0
       THEN /\ mode' = "Normal"
            /\ err' = NoMsg
            /\ status' = NoMsg
            /\ UNCHANGED <<caps, pvars, formvars, dbvars, tab, cursor, searchInput,
                           listvars, outputLines, running, outputChan, paramvars, quit,
                           streamvars>>
       ELSE IF cursor >= listLen THEN indexPanic
       ELSE
         \/ /\ fails < caps.fails
            /\ fails' = fails + 1
            /\ err' = Msg("db error", <<>>)
            /\ status' = NoMsg
            /\ mode' = "Normal"
            /\ UNCHANGED <<caps, pvars, formvars, dbCommands, dbQueries, now, seq, tab,
                           cursor, searchInput, listvars, outputLines, running,
                           outputChan, paramvars, quit, streamvars>>
         \/ \E listFails \in BOOLEAN :
              /\ listFails => fails < caps.fails
              /\ fails' = fails + BoolToNat(listFails)
              /\ status' = Msg("Deleted!", <<>>)
              /\ mode' = "Normal"
              /\ IF tab = "Bash"
                 THEN LET db1 == DeleteRow(dbCommands, filtered[cursor + 1].ID)
                      IN  /\ dbCommands' = db1
                          /\ IF listFails
                             THEN /\ err' = Msg("db error", <<>>)
                                  /\ cursor' = cursorAfterDelete(cursor, Len(filtered))
                                  /\ UNCHANGED <<commands, filtered>>
                             ELSE /\ err' = NoMsg
                                  /\ commands' = ListRows(db1)
                                  /\ \E f \in filterOutcomes(searchInput, ListRows(db1),
                                                  CommandTargets(ListRows(db1)), cursor) :
                                        /\ filtered' = f.rows
                                        /\ cursor' = cursorAfterDelete(f.cursor, Len(f.rows))
                          /\ UNCHANGED <<dbQueries, queries, filteredQueries>>
                 ELSE LET db1 == DeleteRow(dbQueries, filteredQueries[cursor + 1].ID)
                      IN  /\ dbQueries' = db1
                          /\ IF listFails
                             THEN /\ err' = Msg("db error", <<>>)
                                  /\ cursor' = cursorAfterDelete(cursor, Len(filteredQueries))
                                  /\ UNCHANGED <<queries, filteredQueries>>
                             ELSE /\ err' = NoMsg
                                  /\ queries' = ListRows(db1)
                                  /\ \E f \in filterOutcomes(searchInput, ListRows(db1),
                                                  QueryTargets(ListRows(db1)), cursor) :
                                        /\ filteredQueries' = f.rows
                                        /\ cursor' = cursorAfterDelete(f.cursor, Len(f.rows))
                          /\ UNCHANGED <<dbCommands, commands, filtered>>
              /\ UNCHANGED <<caps, pvars, formvars, now, seq, tab, searchInput,
                             outputLines, running, outputChan, paramvars, quit, streamvars>>

\* updateDelete: "n", "N", "esc"
UpdateDeleteNo ==
    /\ ~quit
    /\ keys < caps.keys
    /\ keys' = keys + 1
    /\ mode = "Delete"
    /\ mode' = "Normal"
    /\ err' = NoMsg
    /\ status' = NoMsg
    /\ UNCHANGED <<caps, pvars, formvars, dbvars, tab, cursor, searchInput, listvars,
                   outputLines, running, outputChan, paramvars, quit, streamvars>>

\* updateDelete: any other key, "ctrl+c" among them, falls out of the switch
UpdateDeleteOther ==
    /\ ~quit
    /\ keys < caps.keys
    /\ keys' = keys + 1
    /\ mode = "Delete"
    /\ keyNoop

\* the keys of the add/edit form and of the delete prompt
FormKeyStep ==
    \/ UpdateNormalAdd
    \/ UpdateNormalEdit
    \/ UpdateNormalDelete
    \/ UpdateFormQuit
    \/ UpdateFormEsc
    \/ UpdateFormEdit
    \/ UpdateFormS
    \/ UpdateFormEnter
    \/ UpdateDeleteYes
    \/ UpdateDeleteNo
    \/ UpdateDeleteOther

\* case tea.KeyMsg of Update
KeyStep ==
    \/ UpdateNormalQuit
    \/ UpdateNormalTab
    \/ UpdateNormalUp
    \/ UpdateNormalDown
    \/ UpdateNormalEnter
    \/ UpdateNormalClear
    \/ UpdateNormalCopy
    \/ UpdateNormalEsc
    \/ UpdateNormalType
    \/ UpdateParamQuit
    \/ UpdateParamEsc
    \/ UpdateParamEnter
    \/ UpdateParamType

\* the placeholder-engine specification is not running
ParamsOff ==
    /\ pT = <<>>
    /\ pInfos = <<>>
    /\ pVals = <<>>
    /\ pRes = <<>>
    /\ ppc = "off"

Init ==
    /\ ParamsOff
    /\ caps = [runs |-> MaxRuns, lines |-> MaxLines, keys |-> MaxKeys, fails |-> MaxFails]
    /\ InitApp

Next == KeyStep \/ HandleOutputMsg \/ StreamerStep

\* the state machine under the keys of the Normal and Param modes, with one
\* run at a time
Spec == Init /\ [][Next]_vars

\* the store does not fail in this specification
InitStream ==
    /\ ParamsOff
    /\ caps = [runs |-> StreamRuns, lines |-> StreamLines, keys |-> StreamKeys, fails |-> 0]
    /\ InitApp

\* the keys of the user who runs commands and clears the output pane
NextStream ==
    \/ UpdateNormalEnter
    \/ UpdateNormalClear
    \/ HandleOutputMsg
    \/ StreamerStep

\* the streaming pipeline with runs started while another one is in flight
SpecStream == InitStream /\ [][NextStream]_vars

\* one run whose readers may stop before end-of-stream; the store does not fail
InitScan ==
    /\ ParamsOff
    /\ caps = [runs |-> ScanRuns, lines |-> ScanLines, keys |-> ScanKeys, fails |-> 0]
    /\ InitApp

NextScan ==
    \/ NextStream
    \/ \E r \in DOMAIN runs, s \in Streams : ReaderTooLong(r, s)

\* the streaming pipeline with children that write lines of any length
SpecScan == InitScan /\ [][NextScan]_vars

\* SpecForms: the key events of all five modes; a command may be started, and
\* stays running because its goroutines are not scheduled
InitForms ==
    /\ ParamsOff
    /\ caps = [runs |-> FormRuns, lines |-> 0, keys |-> FormKeys, fails |-> FormFails]
    /\ InitApp

NextForms == KeyStep \/ FormKeyStep

\* the state machine under the keys of all five modes
SpecForms == InitForms /\ [][NextForms]_vars

\* one run, and the keys that enter and leave the four secondary modes; the
\* store does not fail
InitModes ==
    /\ ParamsOff
    /\ caps = [runs |-> ModeRuns, lines |-> ModeLines, keys |-> ModeKeys, fails |-> 0]
    /\ InitApp

NextModes ==
    \/ UpdateNormalEnter
    \/ UpdateNormalDown
    \/ UpdateNormalAdd
    \/ UpdateNormalEdit
    \/ UpdateNormalDelete
    \/ UpdateFormEdit
    \/ UpdateFormEsc
    \/ UpdateDeleteNo
    \/ UpdateParamEsc
    \/ HandleOutputMsg
    \/ StreamerStep

\* a run that streams its output while the user moves through the modes
SpecModes == InitModes /\ [][NextModes]_vars

\* two runs whose goroutines are not scheduled; the store does not fail
InitSeed ==
    /\ ParamsOff
    /\ caps = [runs |-> SeedRuns, lines |-> 0, keys |-> SeedKeys, fails |-> 0]
    /\ InitApp

\* the keys of the user who moves in the list, runs commands and fills in the
\* parameter line
NextSeed ==
    \/ UpdateNormalUp
    \/ UpdateNormalDown
    \/ UpdateNormalEnter
    \/ UpdateParamType
    \/ UpdateParamEnter

\* runs with parameters followed by the prompt that offers the saved values
SpecSeed == InitSeed /\ [][NextSeed]_vars

\* the keys of the user who runs a command and looks at queries on the SQL tab
NextTabs ==
    \/ UpdateNormalEnter
    \/ UpdateNormalDown
    \/ UpdateNormalTab
    \/ HandleOutputMsg
    \/ StreamerStep

\* a run that streams its output while the user works on the SQL tab; the
\* store does not fail
SpecTabs == InitModes /\ [][NextTabs]_vars

(***************************************************************************)
(* Properties of the placeholder engine (checked under SpecParams).        *)
(***************************************************************************)
\* no character of s is a brace
BraceFree(s) == \A i \in DOMAIN s : s[i] \notin {LBrace, RBrace}

\* every brace of t belongs to one of its placeholder tokens
BracesOnlyInTokens(t) ==
    LET ms == FindAllStringSubmatch(t)
    IN  \A i \in DOMAIN t :
            t[i] \in {LBrace, RBrace} =>
                \E k \in DOMAIN ms : ms[k].from <= i /\ i <= ms[k].to

\* the index of the first match that carries the name
FirstMatchOf(ms, name) ==
    CHOOSE k \in DOMAIN ms :
        /\ ms[k].name = name
        /\ \A l \in DOMAIN ms : ms[l].name = name => k <= l

\* C8: ExtractParams marks a name sensitive if any occurrence of that name in
\* the template has the {{!name}} form, whichever occurrence comes first.
C8_SensitiveIfAnyOccurrence ==
    ppc # "init" =>
        LET ms == FindAllStringSubmatch(pT)
        IN  \A i \in DOMAIN pInfos :
                pInfos[i].Sensitive =
                    (\E k \in DOMAIN ms : ms[k].name = pInfos[i].Name /\ ms[k].sens)

\* C9: ExtractParams returns each distinct placeholder name of the template
\* exactly once, in the order of the names' first occurrences.
C9_DistinctInFirstOccurrenceOrder ==
    ppc # "init" =>
        LET ms == FindAllStringSubmatch(pT)
        IN  /\ \A i, j \in DOMAIN pInfos : i # j => pInfos[i].Name # pInfos[j].Name
            /\ ParamNames(pInfos) = {ms[k].name : k \in DOMAIN ms}
            /\ \A i, j \in DOMAIN pInfos :
                   i < j => FirstMatchOf(ms, pInfos[i].Name) < FirstMatchOf(ms, pInfos[j].Name)

\* C9 witness: a template whose first and third placeholder carry the same
\* name and whose second carries another one has been extracted to two names.
C9_Witness ==
    /\ ppc = "extracted"
    /\ LET ms == FindAllStringSubmatch(pT)
       IN  /\ Len(ms) = 3
           /\ ms[1].name = ms[3].name
           /\ ms[1].name # ms[2].name
    /\ Len(pInfos) = 2

\* C10 as stated: with a value supplied for every name of ExtractParams(t), the
\* result of SubstituteParams holds no placeholder token of a supplied name,
\* whatever the values and the order of the map's entries.
C10_NoTokenForAnyValues ==
    ppc = "done" =>
        LET ms == FindAllStringSubmatch(pRes)
        IN  \A k \in DOMAIN ms : ms[k].name \notin DOMAIN pVals

\* C10 amended: when no supplied value contains a brace and every brace of the
\* template belongs to one of its placeholder tokens, the result holds no
\* placeholder token at all, in whatever order the map's entries are applied.
C10_NoTokenForBraceFreeValues ==
    (/\ ppc = "done"
     /\ BracesOnlyInTokens(pT)
     /\ \A n \in DOMAIN pVals : BraceFree(pVals[n]))
        => FindAllStringSubmatch(pRes) = <<>>

\* C10 witness: a template with a {{name}} and a {{!name}} token of two names
\* has been substituted with brace-free values, one of them non-empty.
C10_Witness ==
    /\ ppc = "done"
    /\ BracesOnlyInTokens(pT)
    /\ Cardinality(DOMAIN pVals) = 2
    /\ \A n \in DOMAIN pVals : BraceFree(pVals[n])
    /\ \E n \in DOMAIN pVals : pVals[n] # <<>>
    /\ LET ms == FindAllStringSubmatch(pT)
       IN  /\ \E k \in DOMAIN ms : ms[k].sens
           /\ \E k \in DOMAIN ms : ~ms[k].sens
    /\ FindAllStringSubmatch(pRes) = <<>>

(***************************************************************************)
(* Properties of the streaming pipeline (checked under SpecStream).        *)
(***************************************************************************)
\* the terminal event of run r has been sent and handled by Update
TerminalConsumed(r) ==
    /\ runs[r].doneSent >= 1
    /\ \A m \in BagToSet(inflight) : ~(m.run = r /\ m.Done /\ ~m.closed)

\* the indices of the output pane that show a line of stream s of run r
PaneLines(r, isErr) ==
    {i \in DOMAIN outputLines :
        /\ outputLines[i].kind = "line"
        /\ outputLines[i].run = r
        /\ outputLines[i].isErr = isErr}

\* C1: for every run of the streamer, under every interleaving of the two
\* readers and the consumer, at most one event with Done=true is sent, it is
\* sent only when both readers have stopped, no line event is sent after it,
\* and the channel is closed only after exactly one such event was sent.
C1_OneTerminalEventLast ==
    /\ [](\A r \in DOMAIN runs :
            /\ runs[r].doneSent <= 1
            /\ runs[r].pc \in {"close", "closed"} => runs[r].doneSent = 1
            /\ runs[r].doneSent = 1 => \A s \in Streams : runs[r].rd[s].pc # "scan")
    /\ [][\A r \in DOMAIN runs : \A s \in Streams :
            ReaderSend(r, s) => runs[r].doneSent = 0]_vars

\* C1 witness: a run whose channel is closed after it sent a line of stdout, a
\* line of stderr and its terminal event, all of them shown in the pane.
C1_Witness ==
    \E r \in DOMAIN runs :
        /\ runs[r].pc = "closed"
        /\ runs[r].doneSent = 1
        /\ PaneLines(r, FALSE) # {}
        /\ PaneLines(r, TRUE) # {}
        /\ TerminalConsumed(r)

\* C2: the lines of one stream of one run are appended to the output pane in
\* the order in which the child wrote them, under every interleaving of the
\* readers, the event loop and the keys.
C2_StreamOrderPreserved ==
    \A i, j \in DOMAIN outputLines :
        (/\ i < j
         /\ outputLines[i].kind = "line"
         /\ outputLines[j].kind = "line"
         /\ outputLines[i].run = outputLines[j].run
         /\ outputLines[i].isErr = outputLines[j].isErr)
            => outputLines[i].idx < outputLines[j].idx

\* C3: every started run is drained: when no goroutine of the streamer, no
\* wait and no pending event can take a step any more, the terminal event of
\* every started run has been consumed by the event loop.
C3_EveryRunIsDrained ==
    (~quit /\ ~ENABLED (HandleOutputMsg \/ StreamerStep))
        => \A r \in DOMAIN runs : TerminalConsumed(r)

\* C4: in every reachable state at most one run has been started whose
\* terminal event has not been consumed by the event loop.
C4_AtMostOneActiveRun ==
    Cardinality({r \in DOMAIN runs : ~TerminalConsumed(r)}) <= 1

(***************************************************************************)
(* Properties of Param mode (checked under Spec).                          *)
(***************************************************************************)
\* the template with every placeholder token replaced, in one pass, by the
\* value supplied for its name
RECURSIVE ReplaceTokens(_, _, _, _, _)
ReplaceTokens(t, ms, values, k, pos) ==
    IF k > Len(ms) THEN SubSeq(t, pos, Len(t))
    ELSE SubSeq(t, pos, ms[k].from - 1) \o values[ms[k].name]
             \o ReplaceTokens(t, ms, values, k + 1, ms[k].to + 1)

\* the names the pending command's template requires
RequiredNames == ParamNames(ExtractParams(pendingCmd.Cmd))

\* the parameter line supplies every required name
AllSupplied == RequiredNames \subseteq DOMAIN parseInlineParams(paramInput)

\* every supplied name is made of word characters
WordNames(m) == \A n \in DOMAIN m : \A i \in DOMAIN n : n[i] \in WordChars

\* C5: in Param mode, submitting a line that lacks a required placeholder name
\* sets a missing-parameters message, stays in Param mode, starts no process
\* and leaves the store unwritten.
C5_RejectsMissingParams ==
    [][(UpdateParamEnter /\ ~AllSupplied) =>
          /\ err'[1] = "Missing params: "
          /\ \A n \in RequiredNames :
                 n \notin DOMAIN parseInlineParams(paramInput)
                    <=> \E i \in DOMAIN err'[2] : err'[2][i] = n
          /\ mode' = "Param"
          /\ UNCHANGED <<runs, waitsOn, inflight, running, outputChan, outputLines>>
          /\ UNCHANGED <<dbCommands, dbQueries>>]_vars

\* C5 witness: a submission that supplied one of the two required names has
\* been rejected with the name of the other one.
C5_Witness ==
    /\ mode = "Param"
    /\ err = Msg("Missing params: ", << <<"h">> >>)
    /\ <<"u">> \in DOMAIN parseInlineParams(paramInput)
    /\ runs = <<>>

C7_NoSensitiveNamePersisted ==
    [][\A id \in DOMAIN dbCommands :
          dbCommands'[id].LastParams # dbCommands[id].LastParams =>
              LET ms == FindAllStringSubmatch(pendingCmd'.Cmd)
              IN  /\ pendingCmd'.ID = id
                  /\ \A n \in DOMAIN jsonUnmarshal(dbCommands'[id].LastParams) :
                         ~\E k \in DOMAIN ms : ms[k].name = n /\ ms[k].sens]_vars

(***************************************************************************)
(* Properties of the forms and the modes (checked under SpecForms).        *)
(***************************************************************************)
\* a key that submits the add/edit form
SubmitKey == UpdateFormS \/ UpdateFormEnter

\* C11: submitting the Add form with a body that equals, after trimming, the
\* body of a command in the store is rejected: a message is set, the mode
\* stays Add and the store is not changed, whatever happened before.
C11_DuplicateBodyRejected ==
    [][(/\ SubmitKey
        /\ mode = "Add"
        /\ tab = "Bash"
        /\ \E id \in DOMAIN dbCommands :
               TrimSpace(dbCommands[id].Cmd) = TrimSpace(formInputs.body))
          => (/\ err' # NoMsg
              /\ mode' = "Add"
              /\ dbCommands' = dbCommands)]_vars

\* the store invariant: names and templates are non-empty after trimming and
\* no two commands share a trimmed template or a trimmed name
StoreInvariant(table) ==
    /\ \A id \in DOMAIN table :
           TrimSpace(table[id].Name) # <<>> /\ TrimSpace(table[id].Cmd) # <<>>
    /\ \A i, j \in DOMAIN table :
           i # j => /\ TrimSpace(table[i].Cmd) # TrimSpace(table[j].Cmd)
                    /\ TrimSpace(table[i].Name) # TrimSpace(table[j].Name)

\* C12: after any sequence of Add, Edit and Delete interactions the commands
\* table satisfies the store invariant.
C12_StoreInvariant == StoreInvariant(dbCommands)

\* a "ctrl+c" key event in each of the five modes
CtrlC == UpdateNormalQuit \/ UpdateFormQuit \/ UpdateParamQuit \/ UpdateDeleteOther

\* C13: "ctrl+c" makes Update return tea.Quit in every mode (Normal, Add,
\* Edit, Delete, Param), whether or not a command is running.
C13_CtrlCQuitsInEveryMode == [][CtrlC => quit']_vars

\* an "esc" key event in one of the modes Add, Edit, Delete, Param
EscSecondary == UpdateFormEsc \/ UpdateDeleteNo \/ UpdateParamEsc

\* C14: "esc" in Add, Edit, Delete or Param mode sets the mode to Normal and
\* leaves the store, the lists, the cursor, the output buffer, the running
\* flag, the channel and the runs alone (no process is started); "esc" in
\* Normal mode empties the search text and makes the visible list the full
\* list of the tab.
C14_EscapeCancels ==
    [][/\ EscSecondary =>
              /\ mode' = "Normal"
              /\ UNCHANGED <<dbvars, listvars, cursor, outputLines, running,
                             outputChan, streamvars>>
       /\ UpdateNormalEsc =>
              /\ searchInput' = <<>>
              /\ mode' = "Normal"
              /\ tab' = "Bash" => filtered' = commands'
              /\ tab' = "SQL" => filteredQueries' = queries']_vars

\* the second key was "esc" in the edit form opened by the first
C14_Witness ==
    /\ keys = 2
    /\ mode = "Normal"
    /\ editingCmd # 0
    /\ status = NoMsg
    /\ ~quit
    /\ dbCommands = InitialCommands
    /\ filtered = commands

(***************************************************************************)
(* Further properties of the streaming pipeline (checked under SpecStream).*)
(***************************************************************************)
\* Run(r) returned before it started its readers: a pipe could not be
\* created or the child could not be started
LaunchFailed(r) ==
    /\ runs[r].pc # "start"
    /\ \A s \in Streams : runs[r].rd[s].pc = "idle"

\* C15: a run whose launch fails (stdout pipe, stderr pipe or start) sends
\* exactly one event, which has Done = true and a non-empty failure message;
\* it sends no line event, and its channel is closed after that event.
C15_LaunchFailureSendsOneTerminalEvent ==
    /\ [](\A r \in DOMAIN runs : LaunchFailed(r) =>
            /\ \A m \in BagToSet(inflight) : m.run = r => m.Done
            /\ \A i \in DOMAIN outputLines :
                   ~(outputLines[i].kind = "line" /\ outputLines[i].run = r)
            /\ runs[r].pc = "send" => runs[r].errMsg # "" /\ runs[r].doneSent = 0
            /\ runs[r].pc \in {"close", "closed"} => runs[r].doneSent = 1)
    /\ [][\A r \in DOMAIN runs : (LaunchFailed(r) /\ RunSendDone(r)) =>
            \E e \in LaunchErrors :
                inflight' = inflight (+) SetToBag({DoneMsg(r, e)})]_vars

\* the failure message of a run that could not be launched is in the output
\* pane and the channel of the run is closed
C15_Witness ==
    \E r \in DOMAIN runs :
        /\ LaunchFailed(r)
        /\ runs[r].pc = "closed"
        /\ runs[r].doneSent = 1
        /\ \E i \in DOMAIN outputLines :
               /\ outputLines[i].kind = "error"
               /\ outputLines[i].run = r
               /\ outputLines[i].msg \in LaunchErrors

\* the step of Update that consumes the event m
Consumes(m) == m \in BagToSet(inflight) /\ inflight' = inflight (-) SetToBag({m})

\* C16: the terminal event of a child that exits with a non-zero status
\* carries the non-empty message of c.Wait() and is sent after every line
\* event of the run; when Update consumes a terminal event with a message it
\* clears the running flag, keeps the lines of the output buffer and appends
\* exactly one error line.
C16_FailureEventAfterLinesAndShown ==
    [][/\ \A r \in DOMAIN runs :
            /\ (RunSendDone(r) /\ ~LaunchFailed(r)) =>
                   /\ runs[r].errMsg \in {"", "exit status 1"}
                   /\ inflight' = inflight (+) SetToBag({DoneMsg(r, runs[r].errMsg)})
                   /\ \A s \in Streams : ReaderReturned(r, s)
            /\ \A s \in Streams : ReaderSend(r, s) =>
                   runs[r].pc = "stream" /\ runs[r].doneSent = 0
       /\ \A m \in BagToSet(inflight) :
            (Consumes(m) /\ m.Done /\ m.ErrMsg # "") =>
                   /\ running' = FALSE
                   /\ outputLines' = Append(outputLines, ErrorLine(m))]_vars

\* the pane of a run that printed a line and exited with a non-zero status:
\* header, blank, the line, the error line
C16_Witness ==
    /\ ~running
    /\ Len(outputLines) = 4
    /\ outputLines[1].kind = "header"
    /\ outputLines[3].kind = "line"
    /\ outputLines[3].run = outputLines[1].run
    /\ outputLines[4].kind = "error"
    /\ outputLines[4].run = outputLines[1].run
    /\ outputLines[4].msg = "exit status 1"

\* C17: a wait issued on a channel that is already closed returns the
\* synthetic terminal event (Done = true, empty message), and every wait that
\* Update ever issues returns: when no goroutine, no wait and no pending event
\* can take a step any more, no wait is left blocked in its receive.
C17_EveryWaitReturns ==
    /\ [][\A r \in DOMAIN runs :
            (runs[r].pc = "closed" /\ waitsOn'[r] < waitsOn[r]) =>
                inflight' = inflight (+) SetToBag({ClosedMsg(r)})]_vars
    /\ []((~quit /\ ~ENABLED (HandleOutputMsg \/ StreamerStep))
            => \A c \in DOMAIN waitsOn : waitsOn[c] = 0)

(***************************************************************************)
(* Properties of the output pane (checked under Spec).                     *)
(***************************************************************************)
\* C18 as stated: "C" in Normal mode empties the output buffer and changes
\* nothing else of the program's state.
C18_ClearChangesOnlyTheBuffer ==
    [][UpdateNormalClear =>
          /\ outputLines' = <<>>
          /\ UNCHANGED <<dbvars, mode, tab, cursor, err, status, searchInput, listvars,
                         running, outputChan, paramvars, formvars, quit, streamvars>>]_vars

\* C18, amended: "C" in Normal mode empties the output buffer and, apart from
\* the error and status messages that every key clears, changes nothing else:
\* the running flag, the channel, the outstanding waits and the goroutines of
\* the run are unchanged, and a line event consumed afterwards is still
\* appended to the buffer and followed by a new wait.
C18_ClearKeepsTheRun ==
    [][/\ UpdateNormalClear =>
              /\ outputLines' = <<>>
              /\ UNCHANGED <<dbvars, mode, tab, cursor, searchInput, listvars,
                             running, outputChan, paramvars, formvars, quit, streamvars>>
       /\ \A m \in BagToSet(inflight) :
              (Consumes(m) /\ ~m.Done) =>
                  /\ outputLines' = Append(outputLines, OutputLine(m))
                  /\ waitsOn' = [waitsOn EXCEPT ![outputChan] = @ + 1]
                  /\ UNCHANGED <<running, outputChan>>]_vars

\* the header of a run was cleared away and a line of the run, consumed
\* after that, is alone in the buffer while the run goes on
C18_Witness ==
    /\ running
    /\ outputChan # 0
    /\ waitsOn[outputChan] = 1
    /\ Len(outputLines) = 1
    /\ outputLines[1].kind = "line"
    /\ outputLines[1].run = outputChan

(***************************************************************************)
(* Further properties of the modes and the lists (checked under SpecForms).*)
(***************************************************************************)
\* C19: in every reachable state the cursor is a valid index into the visible
\* list of the tab, or 0 when that list is empty.
C19_CursorInRange ==
    IF listLen = 0 THEN cursor = 0 ELSE cursor \in 0..(listLen - 1)

\* the five modes of the interface
Modes == {"Normal", "Add", "Edit", "Delete", "Param"}

\* C20: exactly one of the five modes is active; a step that changes the mode
\* leaves Normal or returns to it; Add is entered only by "A" in Normal mode,
\* Edit and Delete only by "E" and "D" in Normal mode with a non-empty visible
\* list, and Param only by "enter" in Normal mode on a selected command that
\* has at least one placeholder.
C20_ModeDiscipline ==
    /\ [](mode \in Modes)
    /\ [][mode' # mode =>
            /\ mode = "Normal" \/ mode' = "Normal"
            /\ mode' = "Add" => UpdateNormalAdd
            /\ mode' = "Edit" => UpdateNormalEdit /\ listLen > 0
            /\ mode' = "Delete" => UpdateNormalDelete /\ listLen > 0
            /\ mode' = "Param" =>
                   /\ UpdateNormalEnter
                   /\ tab = "Bash"
                   /\ cursor < Len(filtered)
                   /\ Len(ExtractParams(filtered[cursor + 1].Cmd)) > 0]_vars

\* Param mode in a session that has been through the edit form and then
\* through the add form, which is still empty
C20_Witness ==
    /\ mode = "Param"
    /\ editingCmd # 0
    /\ formInputs = NoForm

(***************************************************************************)
(* Properties of the execution session (checked under Spec).               *)
(***************************************************************************)
\* no pending command, no required placeholders, no collected values
SessionCleared(cmd, infos, values) ==
    cmd = NoCmd /\ infos = <<>> /\ values = <<>>

\* C21: the execution session is cleared when it ends: after the step that
\* consumes the terminal event of a run, and after "esc" in Param mode, there is
\* no pending command, no list of required placeholders and no collected
\* parameter value.
C21_SessionClearedAtEnd ==
    [][/\ (\E m \in BagToSet(inflight) : Consumes(m) /\ m.Done)
              => SessionCleared(pendingCmd', paramInfos', paramValues')
       /\ UpdateParamEsc
              => SessionCleared(pendingCmd', paramInfos', paramValues')]_vars

(***************************************************************************)
(* Properties of the store calls (checked under SpecForms).                *)
(***************************************************************************)
\* C22: whenever a store call of a step fails (Add, Update, Delete, List,
\* UpdateLastUsed, SaveLastParams), the step leaves an error message and no
\* success status, and the lists in memory do not show a mutation that did
\* not happen: each is the list as it was or the rows of its table.
C22_StoreFailureIsReported ==
    [][fails' > fails =>
          /\ err' # NoMsg
          /\ status' = NoMsg
          /\ commands' = commands \/ commands' = ListRows(dbCommands')
          /\ queries' = queries \/ queries' = ListRows(dbQueries')]_vars

(***************************************************************************)
(* Properties of the execution step (checked under SpecStream).            *)
(***************************************************************************)
\* the step of Update that starts a run
StartsRun == Len(runs') > Len(runs)

\* C23: the execution step, in one step of Update, replaces the output buffer
\* by the echo header of the substituted command line (and the empty line
\* below it), sets the running flag, attaches a channel that no run has used,
\* with exactly one wait on it, and sets the mode to Normal; no event of the new
\* run has been received at that point.
C23_ExecutionStepSeedsTheSession ==
    [][StartsRun =>
          LET r == Len(runs')
          IN  /\ Len(runs') = Len(runs) + 1
              /\ \E order \in MapOrders(DOMAIN paramValues') :
                     runs'[r].cmd = SubstituteParams(pendingCmd'.Cmd, paramValues', order)
              /\ outputLines' = <<HeaderLine(r, runs'[r].cmd), BlankLine>>
              /\ running'
              /\ outputChan' = r
              /\ outputChan # r
              /\ waitsOn[r] = 0
              /\ waitsOn' = [waitsOn EXCEPT ![r] = 1]
              /\ mode' = "Normal"
              /\ runs'[r].pc = "start"
              /\ \A m \in BagToSet(inflight') : m.run # r]_vars

\* a second run has just been started after a line of the first one was
\* shown: the buffer holds the header of the second run and nothing else
C23_Witness ==
    /\ Len(runs) = 2
    /\ runs[2].pc = "start"
    /\ runs[1].pc = "stream"
    /\ runs[1].rd["out"].n = 1
    /\ inflight = EmptyBag
    /\ outputLines = <<HeaderLine(2, runs[2].cmd), BlankLine>>
    /\ waitsOn[2] = 1
    /\ running
    /\ mode = "Normal"

(***************************************************************************)
(* Properties of the run key and of Param mode (checked under Spec).       *)
(***************************************************************************)
\* "enter" in Normal mode on the Bash tab with a command under the cursor
RunKey == UpdateNormalEnter /\ tab = "Bash" /\ cursor < Len(filtered)

\* C24: "enter" in Normal mode on a selected command starts a process in the
\* same step, and does not enter Param mode, exactly when the template of the
\* command has no placeholder; when it has one, the step enters Param mode,
\* starts no process and writes nothing to the store.
C24_RunOrAskForParams ==
    [][RunKey =>
          IF ExtractParams(filtered[cursor + 1].Cmd) = <<>>
          THEN /\ StartsRun
               /\ mode' = "Normal"
          ELSE /\ mode' = "Param"
               /\ UNCHANGED <<runs, waitsOn, inflight, running, outputChan>>
               /\ UNCHANGED <<dbCommands, dbQueries, seq>>]_vars

\* after a command without placeholder was started, "enter" on a command with
\* placeholders has opened Param mode and the store shows the first run only
C24_Witness ==
    /\ mode = "Param"
    /\ Len(runs) = 1
    /\ pendingCmd.ID # 0
    /\ ExtractParams(pendingCmd.Cmd) # <<>>
    /\ \A id \in DOMAIN dbCommands :
           dbCommands[id].LastUsedAt # 0 => ExtractParams(dbCommands[id].Cmd) = <<>>

\* the name occurs in the template in its sensitive form {{!name}}
SensitiveIn(t, name) ==
    \E k \in DOMAIN FindAllStringSubmatch(t) :
        /\ FindAllStringSubmatch(t)[k].name = name
        /\ FindAllStringSubmatch(t)[k].sens

\* the line of name=value tokens for the placeholders infos, with the values
\* saved and without a value for the names that are sensitive in template t
RECURSIVE SeedLine(_, _, _, _)
SeedLine(t, infos, saved, k) ==
    IF k > Len(infos) THEN <<>>
    ELSE <<infos[k].Name \o <<Eq>>
             \o (IF SensitiveIn(t, infos[k].Name) THEN <<>>
                 ELSE MapGet(saved, infos[k].Name))>>
         \o SeedLine(t, infos, saved, k + 1)

\* C25: on entering Param mode the editable line is one name=value token per
\* required placeholder, in extraction order, whose value is the value saved
\* in the store for that name when the placeholder is not sensitive, and is
\* empty for every sensitive placeholder whatever the stored last params hold.
C25_SeedLineFromSavedValues ==
    [][(mode # "Param" /\ mode' = "Param") =>
          LET cmd == pendingCmd'
              saved == jsonUnmarshal(dbCommands[cmd.ID].LastParams)
          IN  paramInput' =
                  Join(SeedLine(cmd.Cmd, ExtractParams(cmd.Cmd), saved, 1), <<Sp>>)]_vars

(***************************************************************************)
(* Properties of SubstituteParams under any mapping (checked under         *)
(* SpecSubst).                                                             *)
(***************************************************************************)
\* the template with, in one pass, every token of a supplied name replaced by
\* the value of the name and every other token and character kept as written
RECURSIVE KeepOrReplace(_, _, _, _, _)
KeepOrReplace(t, ms, values, k, pos) ==
    IF k > Len(ms) THEN SubSeq(t, pos, Len(t))
    ELSE SubSeq(t, pos, ms[k].from - 1)
             \o (IF ms[k].name \in DOMAIN values THEN values[ms[k].name]
                 ELSE SubSeq(t, ms[k].from, ms[k].to))
             \o KeepOrReplace(t, ms, values, k + 1, ms[k].to + 1)

\* C26 as stated: SubstituteParams ignores the supplied names that do not
\* occur in the template, leaves every {{name}} and {{!name}} token of a name
\* missing from the mapping as written, and replaces every occurrence of both
\* forms of a supplied name by the value of the name, whatever the mapping.
C26_SubstitutesExactlySuppliedNames ==
    ppc = "done" =>
        pRes = KeepOrReplace(pT, FindAllStringSubmatch(pT), pVals, 1, 1)

\* C26 amended: the same, when the supplied names are made of word characters,
\* no supplied value contains a brace and every brace of the template belongs
\* to one of its placeholder tokens.
C26_SubstitutesSuppliedWordNamesBraceFree ==
    (/\ ppc = "done"
     /\ WordNames(pVals)
     /\ BracesOnlyInTokens(pT)
     /\ \A n \in DOMAIN pVals : BraceFree(pVals[n]))
        => pRes = KeepOrReplace(pT, FindAllStringSubmatch(pT), pVals, 1, 1)

\* C26 witness: {{a}}{{!a}}{{b}} substituted under a mapping of a and e: both
\* forms of a are replaced, the token of b is kept, e is ignored.
C26_Witness ==
    /\ ppc = "done"
    /\ pT = Plain(<<"a">>) \o Secret(<<"a">>) \o Plain(<<"b">>)
    /\ WordNames(pVals)
    /\ DOMAIN pVals = { <<"a">>, <<"e">> }
    /\ pVals[<<"a">>] = <<"b">>
    /\ pVals[<<"e">>] = <<"b">>
    /\ pRes = <<"b", "b">> \o Plain(<<"b">>)

(***************************************************************************)
(* Properties of the readers of Run (checked under SpecScan).              *)
(***************************************************************************)
\* C27: Run awaits the exit of the child and sends the terminal event only
\* after both readers have reached end-of-stream on their pipe: a reader
\* signals completion only at end-of-stream, never while output of the child
\* is unread.
C27_TerminalEventAfterEndOfStream ==
    \A r \in DOMAIN runs :
        /\ \A s \in Streams : ReaderReturned(r, s) => runs[r].rd[s].pc = "exit"
        /\ (runs[r].pc \in {"send", "close", "closed"} /\ ~LaunchFailed(r))
               => \A s \in Streams : runs[r].rd[s].pc = "exit"

(***************************************************************************)
(* Properties of the output events in the five modes (checked under        *)
(* SpecModes).                                                             *)
(***************************************************************************)
\* C28: output events are handled in the same way in every mode: a pending
\* event can always be consumed, whatever the mode, and consuming a line event
\* appends exactly one line to the output buffer, issues one wait, and changes
\* neither the mode, the cursor, the search text, the lists, the form nor the
\* parameter input.
C28_OutputHandledInEveryMode ==
    /\ []((~quit /\ inflight # EmptyBag) => ENABLED HandleOutputMsg)
    /\ [][\A m \in BagToSet(inflight) :
            (Consumes(m) /\ ~m.Done) =>
                /\ outputLines' = Append(outputLines, OutputLine(m))
                /\ waitsOn' = [waitsOn EXCEPT ![outputChan] = @ + 1]
                /\ UNCHANGED <<mode, tab, cursor, searchInput, listvars, formvars,
                               paramvars, dbvars, running, outputChan, runs>>]_vars

\* in Param mode, with the parameter line on screen, a line of the running
\* command is in the buffer and the next wait is blocked on the channel
C28_Witness ==
    /\ mode \in {"Add", "Edit", "Delete", "Param"}
    /\ running
    /\ Len(outputLines) = 3
    /\ outputLines[3].kind = "line"
    /\ outputLines[3].run = outputChan
    /\ waitsOn[outputChan] = 1
    /\ inflight = EmptyBag

(***************************************************************************)
(* Properties of the running flag and of the waits (checked under          *)
(* SpecStream).                                                            *)
(***************************************************************************)
\* the goroutine of run r has yet to send an event or to return
Unfinished(r) == runs[r].pc \in {"start", "stream", "send"}

\* C29: in every reachable state, if the running flag is false and there is
\* no channel handle, then no started run is unfinished; and the running flag
\* is cleared only by the terminal event of the run started last.
C29_NotRunningMeansNoRunUnfinished ==
    /\ []((~running /\ outputChan = 0) => \A r \in DOMAIN runs : ~Unfinished(r))
    /\ [][(running /\ ~running') =>
            \E m \in BagToSet(inflight) :
                Consumes(m) /\ m.Done /\ ~m.closed /\ m.run = Len(runs)]_vars

\* the waits that are blocked in a receive, over all channels
OutstandingWaits ==
    LET RECURSIVE Sum(_)
        Sum(c) == IF c < 0 THEN 0 ELSE waitsOn[c] + Sum(c - 1)
    IN  Sum(caps.runs)

\* C30: in every reachable state there is at most one outstanding wait, and
\* every outstanding wait is on the channel of the run started last, never on
\* the nil channel or on the channel of an earlier run.
C30_OneWaitOnTheLatestChannel ==
    /\ OutstandingWaits <= 1
    /\ \A c \in DOMAIN waitsOn : waitsOn[c] > 0 => (c # 0 /\ c = Len(runs))

(***************************************************************************)
(* Properties of the output buffer across runs and views (checked under    *)
(* Spec).                                                                  *)
(***************************************************************************)
\* a line or an error annotation that a run emitted
FromRun(l) == l.kind \in {"line", "error"}

\* every emitted line below an echo header comes from the run of the header
LinesBelongToHeader ==
    \A i, j \in DOMAIN outputLines :
        (i < j /\ outputLines[i].kind = "header" /\ FromRun(outputLines[j]))
            => outputLines[j].run = outputLines[i].run

\* no emitted line stands below the text shown by Enter on the SQL tab
NoOutputBelowSql ==
    \A i, j \in DOMAIN outputLines :
        (i < j /\ outputLines[i].kind = "sql") => ~FromRun(outputLines[j])

\* C31: in every reachable state, every line of the output buffer that follows
\* an echo header was emitted by the run the header names (so no line or error
\* annotation of an earlier run is in the buffer of a later run), and no
\* output of a run follows the text shown by the view action of the SQL tab.
C31_OutputIsolatedBetweenRuns ==
    /\ LinesBelongToHeader
    /\ NoOutputBelowSql

(***************************************************************************)
(* Properties of the run of a command without placeholder (checked under   *)
(* Spec).                                                                  *)
(***************************************************************************)
\* C32: the step that executes a command whose template has no placeholder,
\* after any earlier parameterised runs or cancelled Param prompts, runs the
\* template as written (no value of an earlier session is substituted) and
\* writes the last params of no command.
C32_NoPlaceholderRunIgnoresEarlierSession ==
    [][(StartsRun /\ ExtractParams(pendingCmd'.Cmd) = <<>>) =>
          /\ runs'[Len(runs')].cmd = pendingCmd'.Cmd
          /\ \A id \in DOMAIN dbCommands :
                 dbCommands'[id].LastParams = dbCommands[id].LastParams]_vars

(***************************************************************************)
(* Properties of the pre-seeded parameter line (checked under SpecSeed).   *)
(***************************************************************************)
\* the line runSelectedCommand puts in the parameter input for the pending
\* command
PreSeeded ==
    Join(SeedParts(paramInfos, jsonUnmarshal(pendingCmd.LastParams), 1), <<Sp>>)

\* the pre-seeded line parses to a mapping with every required name
SeedPassesValidation ==
    [][(mode = "Normal" /\ mode' = "Param") =>
          /\ ParamNames(paramInfos') # {}
          /\ MissingParams(paramInfos', parseInlineParams(paramInput')) = <<>>]_vars

\* C33: for every command with placeholders and every last-params mapping the
\* program has written, the unedited pre-seeded line parses to a mapping that
\* holds every required placeholder name, so that submitting it passes
\* validation and executes, with the empty string for every placeholder that
\* had no saved value and for every sensitive placeholder.
C33_SeedLineRoundTrip ==
    /\ SeedPassesValidation
    /\ [][(UpdateParamEnter /\ paramInput = PreSeeded) =>
            /\ StartsRun
            /\ ParamNames(paramInfos) \subseteq DOMAIN paramValues'
            /\ \A name \in ParamNames(paramInfos) :
                   (\/ name \notin DOMAIN jsonUnmarshal(pendingCmd.LastParams)
                    \/ SensitiveIn(pendingCmd.Cmd, name))
                       => paramValues'[name] = <<>>]_vars

(***************************************************************************)
(* Properties of the selection across an execution (checked under Spec).   *)
(***************************************************************************)
\* C34: executing the selected command preserves the selection: after the
\* execution step, which records the last-used time and reloads the list, the
\* cursor designates the command that was executed.
C34_ExecutionKeepsTheSelection ==
    [][StartsRun =>
          /\ cursor' < Len(filtered')
          /\ filtered'[cursor' + 1].ID = pendingCmd'.ID]_vars

(***************************************************************************)
(* Properties of the view action of the SQL tab (checked under SpecTabs).  *)
(***************************************************************************)
\* "enter" in Normal mode on the SQL tab with a query under the cursor
ViewKey == UpdateNormalEnter /\ tab = "SQL" /\ cursor < Len(filteredQueries)

\* C35: on the SQL tab, "enter" on a selected query never starts a process: it
\* sets the output buffer to the text of the query, records the last-used time
\* of the query, and leaves the running flag, the event channel and the
\* outstanding waits unchanged; a process is started from the Bash tab only.
C35_SqlEnterStartsNoProcess ==
    /\ [][ViewKey =>
            LET q == filteredQueries[cursor + 1]
            IN  /\ outputLines' = <<SqlLine(q.SQL)>>
                /\ dbQueries' = SetLastUsed(dbQueries, q.ID, now)
                /\ UNCHANGED <<running, outputChan, waitsOn, runs, inflight>>
                /\ UNCHANGED <<dbCommands, mode, tab>>]_vars
    /\ [][StartsRun => tab = "Bash"]_vars

\* while a command started on the Bash tab is running and its wait is
\* outstanding, a query has been viewed: its text is the whole output buffer
C35_Witness ==
    /\ tab = "SQL"
    /\ running
    /\ outputChan = 1
    /\ waitsOn[1] = 1
    /\ Len(runs) = 1
    /\ Len(outputLines) = 1
    /\ outputLines[1].kind = "sql"
    /\ \E id \in DOMAIN dbQueries :
           /\ dbQueries[id].LastUsedAt # 0
           /\ outputLines[1].cmd = dbQueries[id].SQL

(***************************************************************************)
(* Properties of the session references (checked under SpecForms).         *)
(***************************************************************************)
\* C36: the references of a session are set where they are used: in every
\* reachable state, Param mode implies that a pending command is set and that
\* the list of required placeholders is non-empty and is ExtractParams of the
\* template of that command; the execution step happens with a pending
\* command set only; and a submit of the form in Edit mode happens with the
\* item under edit set, the command on the Bash tab and the query on the SQL
\* tab.
C36_SessionReferencesValid ==
    /\ [](mode = "Param" =>
            /\ pendingCmd # NoCmd
            /\ pendingCmd.ID # 0
            /\ paramInfos # <<>>
            /\ paramInfos = ExtractParams(pendingCmd.Cmd))
    /\ [][StartsRun =>
            /\ pendingCmd' # NoCmd
            /\ pendingCmd'.ID # 0
            /\ (mode = "Param" => pendingCmd' = pendingCmd)]_vars
    /\ [][(SubmitKey /\ mode = "Edit") =>
            IF tab = "Bash" THEN editingCmd # 0 ELSE editingQuery # 0]_vars

\* Param mode for one command, after the edit form of another command was
\* submitted and changed its row
C36_Witness ==
    /\ mode = "Param"
    /\ pendingCmd.ID # 0
    /\ editingCmd # 0
    /\ editingCmd # pendingCmd.ID
    /\ editingCmd \in DOMAIN dbCommands \cap DOMAIN InitialCommands
    /\ dbCommands[editingCmd].Name # InitialCommands[editingCmd].Name
    /\ paramInfos = ExtractParams(pendingCmd.Cmd)

====
